---- MODULE Spec2Model ----
(***************************************************************************)
(* smartlog: the redaction engine (redactHeaders / redact /                *)
(* redactJSONBody), the GORM result logger (logResult), the HTTP           *)
(* middleware (ServerLogging and the logging RoundTripper) and the GORM    *)
(* logger (GormLogger), modelled at the level of bytes.  A byte is a       *)
(* one-character string, a byte slice or a Go string is a sequence of      *)
(* bytes, and encoding/json is modelled by an encoder (Marshal) and a      *)
(* recursive-descent decoder (Unmarshal).  Each part has a specification   *)
(* of its own (Spec, SpecGorm, SpecHTTP, SpecLogger) over the one list of  *)
(* variables; a specification leaves the variables of the other parts at   *)
(* their idle values.  SpecContext runs the result logger and the GORM     *)
(* logger on one connection, and SpecConcurrent runs the redaction engine  *)
(* statement by statement in several goroutines over a heap of maps and    *)
(* slices.  Records leave out the method, the URL and the latency in       *)
(* milliseconds, which no property here reads.                             *)
(***************************************************************************)
EXTENDS FiniteSets, Integers, Sequences, TLC

(***************************************************************************)
(* Bytes and strings                                                       *)
(***************************************************************************)
UpperCase == <<"A","B","C","D","E","F","G","H","I","J","K","L","M",
               "N","O","P","Q","R","S","T","U","V","W","X","Y","Z">>

LowerCase == <<"a","b","c","d","e","f","g","h","i","j","k","l","m",
               "n","o","p","q","r","s","t","u","v","w","x","y","z">>

Digits == <<"0","1","2","3","4","5","6","7","8","9">>

Punct == (" " :> 32) @@ ("\"" :> 34) @@ ("," :> 44) @@ ("-" :> 45) @@
         (":" :> 58) @@ ("[" :> 91) @@ ("]" :> 93) @@ ("_" :> 95) @@
         ("{" :> 123) @@ ("}" :> 125)

Range(s) == {s[i] : i \in DOMAIN s}

IndexIn(s, c) == CHOOSE i \in DOMAIN s : s[i] = c

\* the byte value of every character (ASCII)
CodeTable ==
    [c \in Range(UpperCase) |-> 64 + IndexIn(UpperCase, c)]
    @@ [c \in Range(LowerCase) |-> 96 + IndexIn(LowerCase, c)]
    @@ [c \in Range(Digits) |-> 47 + IndexIn(Digits, c)]
    @@ Punct

Code(c) == CodeTable[c]

IsDigit(c) == Code(c) >= 48 /\ Code(c) <= 57

DigitVal(c) == Code(c) - 48

\* strings.ToLower on one byte: 'A'..'Z' map to 'a'..'z', the rest is kept
ToLowerChar(c) ==
    IF Code(c) >= 65 /\ Code(c) <= 90 THEN LowerCase[Code(c) - 64] ELSE c

\* strings.ToLower
ToLower(s) == [i \in 1..Len(s) |-> ToLowerChar(s[i])]

SetMin(S) == CHOOSE a \in S : \A b \in S : a <= b

\* Go's string comparison a <= b: bytewise lexicographic
StrLeq(a, b) ==
    LET n    == IF Len(a) < Len(b) THEN Len(a) ELSE Len(b)
        diff == {i \in 1..n : a[i] # b[i]}
    IN  IF diff = {} THEN Len(a) <= Len(b)
        ELSE Code(a[SetMin(diff)]) < Code(b[SetMin(diff)])

RECURSIVE SortStrings(_)
\* sort.Strings, and the key order json.Marshal gives a map: the keys of the
\* set S in ascending order
SortStrings(S) ==
    IF S = {} THEN <<>>
    ELSE LET m == CHOOSE a \in S : \A b \in S : StrLeq(a, b)
         IN  <<m>> \o SortStrings(S \ {m})

(***************************************************************************)
(* Go values: what json.Unmarshal produces in an interface{} and what      *)
(* json.Marshal accepts.  Every value is a record [t, v]; t is the dynamic *)
(* type.                                                                   *)
(***************************************************************************)
Str(s)  == [t |-> "str", v |-> s]
Num(d)  == [t |-> "num", v |-> d]
Bool(b) == [t |-> "bool", v |-> IF b THEN <<"t","r","u","e">> ELSE <<"f","a","l","s","e">>]
Null    == [t |-> "nil", v |-> <<>>]
\* a []interface{} that is nil: what `var newSlice []interface{}` stays when
\* nothing is appended
NilSlice == [t |-> "nilslice", v |-> <<>>]
\* a map[string]interface{} that is nil: what Unmarshal of `null` leaves
NilMap  == [t |-> "nilmap", v |-> <<>>]
Arr(items) == [t |-> "arr", v |-> items]
Obj(fields) == [t |-> "obj", v |-> fields]
\* a struct value: its exported fields in declaration order
Struct(fields) == [t |-> "struct", v |-> fields]

EmptyFields == [n \in {} |-> Null]
EmptyObj == Obj(EmptyFields)

IsMap(d) == d.t \in {"obj", "nilmap"}
IsSlice(d) == d.t \in {"arr", "nilslice"}

\* the entries a `for key, value := range data` visits
MapKeys(d) == IF d.t = "obj" THEN DOMAIN d.v ELSE {}

(***************************************************************************)
(* encoding/json: the encoder                                              *)
(***************************************************************************)
Quote(s) == <<"\"">> \o s \o <<"\"">>

NullBytes == <<"n","u","l","l">>

RECURSIVE Marshal(_)
RECURSIVE MarshalElems(_, _)
RECURSIVE MarshalMembers(_, _, _)
RECURSIVE MarshalStructFields(_, _)

\* json.Marshal: a map is written with its keys sorted, a struct with its
\* fields in declaration order, a nil map, nil slice or nil interface as null
Marshal(d) ==
    CASE d.t = "str" -> Quote(d.v)
      [] d.t = "num" -> d.v
      [] d.t = "bool" -> d.v
      [] d.t \in {"nil", "nilslice", "nilmap"} -> NullBytes
      [] d.t = "arr" -> <<"[">> \o MarshalElems(d.v, 1) \o <<"]">>
      [] d.t = "obj" -> <<"{">> \o MarshalMembers(d.v, SortStrings(DOMAIN d.v), 1) \o <<"}">>
      [] d.t = "struct" -> <<"{">> \o MarshalStructFields(d.v, 1) \o <<"}">>

MarshalElems(items, i) ==
    IF i > Len(items) THEN <<>>
    ELSE (IF i > 1 THEN <<",">> ELSE <<>>) \o Marshal(items[i]) \o MarshalElems(items, i + 1)

MarshalMembers(fields, order, i) ==
    IF i > Len(order) THEN <<>>
    ELSE (IF i > 1 THEN <<",">> ELSE <<>>) \o Quote(order[i]) \o <<":">>
         \o Marshal(fields[order[i]]) \o MarshalMembers(fields, order, i + 1)

MarshalStructFields(fs, i) ==
    IF i > Len(fs) THEN <<>>
    ELSE (IF i > 1 THEN <<",">> ELSE <<>>) \o Quote(fs[i].name) \o <<":">>
         \o Marshal(fs[i].val) \o MarshalStructFields(fs, i + 1)

(***************************************************************************)
(* encoding/json: the decoder.  A number is decoded into a float64 and     *)
(* written back in its shortest decimal form; below 2^53 that is the       *)
(* numeral itself, from 2^53 up to 2^54 the float64 values are the even    *)
(* integers.                                                               *)
(***************************************************************************)
TwoTo53 == <<"9","0","0","7","1","9","9","2","5","4","7","4","0","9","9","2">>

RECURSIVE Increment(_)
\* the decimal numeral of n + 1
Increment(d) ==
    IF Len(d) = 0 THEN <<"1">>
    ELSE IF d[Len(d)] = "9" THEN Increment(SubSeq(d, 1, Len(d) - 1)) \o <<"0">>
    ELSE SubSeq(d, 1, Len(d) - 1) \o <<Digits[DigitVal(d[Len(d)]) + 2]>>

\* the decimal numeral of n - 1, for n whose last digit is not 0
Decrement(d) == SubSeq(d, 1, Len(d) - 1) \o <<Digits[DigitVal(d[Len(d)])]>>

\* the numeral of float64(n) for an integer numeral 0 <= n < 2^54: exact
\* below 2^53, rounded to the nearest even integer (ties to the even
\* mantissa, a multiple of 4) from 2^53 on
Float64(d) ==
    IF Len(d) < 16 \/ ~StrLeq(TwoTo53, d) THEN d
    ELSE LET low == (10 * DigitVal(d[Len(d) - 1]) + DigitVal(d[Len(d)])) % 4
         IN  IF low = 1 THEN Decrement(d)
             ELSE IF low = 3 THEN Increment(d)
             ELSE d

Fail == [ok |-> FALSE, val |-> Null, pos |-> 0]

RECURSIVE SkipSpace(_, _)
SkipSpace(b, i) == IF i <= Len(b) /\ b[i] = " " THEN SkipSpace(b, i + 1) ELSE i

HasAt(b, i, lit) ==
    /\ i + Len(lit) - 1 <= Len(b)
    /\ \A j \in 1..Len(lit) : b[i + j - 1] = lit[j]

RECURSIVE ScanString(_, _)
\* the index of the closing quote of the string whose first byte is at i,
\* or 0 if the input ends first
ScanString(b, i) ==
    IF i > Len(b) THEN 0
    ELSE IF b[i] = "\"" THEN i
    ELSE ScanString(b, i + 1)

RECURSIVE ScanDigits(_, _)
ScanDigits(b, i) == IF i <= Len(b) /\ IsDigit(b[i]) THEN ScanDigits(b, i + 1) ELSE i

ParseString(b, i) ==
    LET close == ScanString(b, i + 1)
    IN  IF close = 0 THEN Fail
        ELSE [ok |-> TRUE, val |-> Str(SubSeq(b, i + 1, close - 1)), pos |-> close + 1]

\* a JSON integer: 0, or a non-zero digit followed by digits
ParseNumber(b, i) ==
    LET end == IF b[i] = "0" THEN i + 1 ELSE ScanDigits(b, i)
    IN  [ok |-> TRUE, val |-> Num(Float64(SubSeq(b, i, end - 1))), pos |-> end]

RECURSIVE ParseValue(_, _)
RECURSIVE ParseElems(_, _, _)
RECURSIVE ParseMembers(_, _, _)

\* one JSON value starting at or after b[i0]; pos is the index after it
ParseValue(b, i0) ==
    LET i == SkipSpace(b, i0)
    IN  IF i > Len(b) THEN Fail
        ELSE IF b[i] = "{" THEN
            (LET j == SkipSpace(b, i + 1)
             IN  IF j <= Len(b) /\ b[j] = "}"
                 THEN [ok |-> TRUE, val |-> EmptyObj, pos |-> j + 1]
                 ELSE ParseMembers(b, j, EmptyFields))
        ELSE IF b[i] = "[" THEN
            (LET j == SkipSpace(b, i + 1)
             IN  IF j <= Len(b) /\ b[j] = "]"
                 THEN [ok |-> TRUE, val |-> Arr(<<>>), pos |-> j + 1]
                 ELSE ParseElems(b, j, <<>>))
        ELSE IF b[i] = "\"" THEN ParseString(b, i)
        ELSE IF IsDigit(b[i]) THEN ParseNumber(b, i)
        ELSE IF HasAt(b, i, <<"t","r","u","e">>) THEN [ok |-> TRUE, val |-> Bool(TRUE), pos |-> i + 4]
        ELSE IF HasAt(b, i, <<"f","a","l","s","e">>) THEN [ok |-> TRUE, val |-> Bool(FALSE), pos |-> i + 5]
        ELSE IF HasAt(b, i, NullBytes) THEN [ok |-> TRUE, val |-> Null, pos |-> i + 4]
        ELSE Fail

\* the elements of an array after '[', acc holding those already decoded
ParseElems(b, i, acc) ==
    LET e == ParseValue(b, i)
        j == SkipSpace(b, e.pos)
    IN  IF ~e.ok \/ j > Len(b) THEN Fail
        ELSE IF b[j] = "," THEN ParseElems(b, j + 1, Append(acc, e.val))
        ELSE IF b[j] = "]" THEN [ok |-> TRUE, val |-> Arr(Append(acc, e.val)), pos |-> j + 1]
        ELSE Fail

\* the members of an object after '{'; a repeated key overwrites the
\* earlier entry, as an assignment into the map does
ParseMembers(b, i0, acc) ==
    LET i == SkipSpace(b, i0)
    IN  IF i > Len(b) \/ b[i] # "\"" THEN Fail
        ELSE LET k == ParseString(b, i)
                 c == SkipSpace(b, k.pos)
             IN  IF ~k.ok \/ c > Len(b) \/ b[c] # ":" THEN Fail
                 ELSE LET e == ParseValue(b, c + 1)
                          j == SkipSpace(b, e.pos)
                          m == (k.val.v :> e.val) @@ acc
                      IN  IF ~e.ok \/ j > Len(b) THEN Fail
                          ELSE IF b[j] = "," THEN ParseMembers(b, j + 1, m)
                          ELSE IF b[j] = "}" THEN [ok |-> TRUE, val |-> Obj(m), pos |-> j + 1]
                          ELSE Fail

\* the whole input is one JSON value, surrounded by nothing but spaces
ParseDocument(b) ==
    LET r == ParseValue(b, 1)
    IN  IF r.ok /\ SkipSpace(b, r.pos) > Len(b) THEN r ELSE Fail

\* json.Unmarshal(b, &data) with `var data interface{}`
UnmarshalAny(b) ==
    LET r == ParseDocument(b)
    IN  [err |-> ~r.ok, data |-> r.val]

\* json.Unmarshal(b, &data) with `var data map[string]interface{}`: an
\* object fills the map, null leaves it nil without an error, every other
\* value is an UnmarshalTypeError
UnmarshalMap(b) ==
    LET r == ParseDocument(b)
    IN  IF ~r.ok THEN [err |-> TRUE, data |-> NilMap]
        ELSE IF r.val.t = "obj" THEN [err |-> FALSE, data |-> r.val]
        ELSE IF r.val.t = "nil" THEN [err |-> FALSE, data |-> NilMap]
        ELSE [err |-> TRUE, data |-> NilMap]

(***************************************************************************)
(* The redaction engine                                                    *)
(***************************************************************************)
redactionPlaceholder == <<"[","R","E","D","A","C","T","E","D","]">>

\* keyMap as built by the loop over keysToRedact, without the lower-casing
keyMapExact(keysToRedact) == Range(keysToRedact)

\* keyMap[strings.ToLower(key)] = struct{}{} for every key of keysToRedact
keyMapOf(keysToRedact) == {ToLower(keysToRedact[i]) : i \in DOMAIN keysToRedact}

\* _, exists := keyMap[strings.ToLower(key)]
matches(key, keyMap) == ToLower(key) \in keyMap

\* a header map and whether it is the caller's own map (not a copy)
HeaderResult(h, same) == [hdr |-> h, same |-> same]

\* redactHeaders that copies every value sequence and redacts nothing
redactHeadersNoMatch(headers, keysToRedact) ==
    IF Len(keysToRedact) = 0 THEN HeaderResult(headers, TRUE)
    ELSE HeaderResult([key \in DOMAIN headers |-> headers[key]], FALSE)

redactHeaders(headers, keysToRedact) ==
    IF Len(keysToRedact) = 0 THEN HeaderResult(headers, TRUE)
    ELSE LET keyMap == keyMapOf(keysToRedact)
         IN  HeaderResult([key \in DOMAIN headers |->
                              IF matches(key, keyMap) THEN <<redactionPlaceholder>>
                              ELSE headers[key]], FALSE)

RECURSIVE redact(_, _)

\* the loop over an array value that starts from the input slice instead of
\* an empty one
redactSliceAppending(v, keysToRedact) ==
    Arr(v.v \o [i \in 1..Len(v.v) |->
                  IF IsMap(v.v[i]) THEN redact(v.v[i], keysToRedact) ELSE v.v[i]])

\* case []interface{}: newSlice starts nil and gets one element per item,
\* the redacted form of an item that is a map, the item itself otherwise
redactSlice(v, keysToRedact) ==
    IF Len(v.v) = 0 THEN NilSlice
    ELSE Arr([i \in 1..Len(v.v) |->
                IF IsMap(v.v[i]) THEN redact(v.v[i], keysToRedact) ELSE v.v[i]])

\* the value redact stores for a key that is not in keyMap
redactValue(value, keysToRedact) ==
    IF IsMap(value) THEN redact(value, keysToRedact)
    ELSE IF IsSlice(value) THEN redactSlice(value, keysToRedact)
    ELSE value

\* redact that replaces a matching field only when its value is a string
\* and treats every other matching field as a field that does not match
redactStringsOnly(data, keysToRedact) ==
    LET keyMap == keyMapOf(keysToRedact)
    IN  Obj([key \in MapKeys(data) |->
               IF matches(key, keyMap) /\ data.v[key].t = "str" THEN Str(redactionPlaceholder)
               ELSE redactValue(data.v[key], keysToRedact)])

redact(data, keysToRedact) ==
    LET keyMap == keyMapOf(keysToRedact)
    IN  Obj([key \in MapKeys(data) |->
               IF matches(key, keyMap) THEN Str(redactionPlaceholder)
               ELSE redactValue(data.v[key], keysToRedact)])

\* redactJSONBody whose error branch of Unmarshal is not taken
redactJSONBodyNoErrCheck(body, keysToRedact) ==
    IF Len(keysToRedact) = 0 \/ Len(body) = 0 THEN body
    ELSE Marshal(redact(UnmarshalMap(body).data, keysToRedact))

\* redactJSONBody without the early return
redactJSONBodyNoEarlyReturn(body, keysToRedact) ==
    LET u == UnmarshalMap(body)
    IN  IF u.err THEN body ELSE Marshal(redact(u.data, keysToRedact))

\* json.Marshal cannot fail on a value that json.Unmarshal produced, so the
\* second fallback is never taken
redactJSONBody(body, keysToRedact) ==
    IF Len(keysToRedact) = 0 \/ Len(body) = 0 THEN body
    ELSE LET u == UnmarshalMap(body)
         IN  IF u.err THEN body
             ELSE Marshal(redact(u.data, keysToRedact))

(***************************************************************************)
(* Inputs of the redaction engine                                          *)
(***************************************************************************)
\* the deepest nesting below the top-level object
MaxDepth == 3
\* the most fields of an object with several fields
MaxFields == 2
\* the most elements of an array with several elements
MaxArrLen == 2
\* the most keys in the configured key list
MaxKeys == 2
\* how many times in a row a function is applied to its own result
MaxCalls == 2

FieldNames == {<<"p","w">>, <<"P","w">>, <<"n">>}

KeyNames == {<<"p","w">>, <<"P","W">>, <<"n">>}

BigNumeral == <<"9","0","0","7","1","9","9","2","5","4","7","4","0","9","9","3">>

Scalars == {Str(<<"s">>), Num(<<"7">>), Num(BigNumeral), Bool(TRUE), Null}

SeqsUpTo(S, n) == UNION {[1..m -> S] : m \in 0..n}

\* the configured key lists: up to MaxKeys different keys in any order
KeyLists == {k \in SeqsUpTo(KeyNames, MaxKeys) : Cardinality(Range(k)) = Len(k)}

ObjectsOver(names, vals, n) ==
    {Obj(f) : f \in UNION {[S -> vals] : S \in {T \in SUBSET names : Cardinality(T) <= n}}}

RECURSIVE Nested(_)
\* values nested at most n deep: a string, an empty or one-field object, an
\* empty or one-element array
Nested(n) ==
    IF n = 0 THEN {Str(<<"s">>)}
    ELSE LET below == Nested(n - 1)
         IN  {Str(<<"s">>), Arr(<<>>)}
             \cup ObjectsOver({<<"p","w">>, <<"n">>}, below, 1)
             \cup {Arr(<<v>>) : v \in below}

DeepDocs == {Obj(<<"n">> :> v) : v \in Nested(MaxDepth)}

FlatDocs == ObjectsOver(FieldNames, Scalars, MaxFields)

ArrItems == {Str(<<"s">>), Obj(<<"p","w">> :> Str(<<"s">>)),
             Obj(<<"n">> :> Num(<<"7">>)), Arr(<<>>)}

ArrDocs == {Obj(<<"n">> :> Arr(items)) : items \in SeqsUpTo(ArrItems, MaxArrLen)}

Reverse(s) == [i \in 1..Len(s) |-> s[Len(s) + 1 - i]]

RECURSIVE SpacedMembers(_, _, _)
\* an encoding of the object d that is not the one Marshal writes: the
\* members in descending key order and a space after ':' and ','
Spaced(d) ==
    <<"{">> \o SpacedMembers(d.v, Reverse(SortStrings(DOMAIN d.v)), 1) \o <<" ", "}">>

SpacedMembers(fields, order, i) ==
    IF i > Len(order) THEN <<>>
    ELSE (IF i > 1 THEN <<",", " ">> ELSE <<>>) \o Quote(order[i]) \o <<":", " ">>
         \o Marshal(fields[order[i]]) \o SpacedMembers(fields, order, i + 1)

\* bodies that are not the encoding of an object, or encode one with a
\* repeated key
RawBodies == {
    <<>>,
    <<" ">>,
    <<"n","o","t"," ","a"," ","j","s","o","n">>,
    <<"n","u","l","l">>,
    <<" ","n","u","l","l"," ">>,
    <<"t","r","u","e">>,
    <<"7">>,
    <<"0","7">>,
    <<"\"","p","w","\"">>,
    <<"[","]">>,
    <<"[","{","\"","p","w","\"",":","\"","s","\"","}","]">>,
    <<"{","\"","p","w","\"",":","\"","s","\"">>,
    <<"{","\"","p","w","\"",":","\"","s","\"","}","x">>,
    <<"{","\"","p","w","\"",":","\"","s","\"",",","}">>,
    <<"{","p","w",":","\"","s","\"","}">>,
    <<"{","\"","p","w","\"","\"","s","\"","}">>,
    <<"{","\"","n","\"",":","[","7",",","}">>,
    <<"{","\"","n","\"",":","\"","s","\"",",","\"","n","\"",":","7","}">> }

Docs == DeepDocs \cup FlatDocs \cup ArrDocs

Bodies ==
    {Marshal(d) : d \in Docs}
    \cup {Spaced(d) : d \in FlatDocs \cup ArrDocs}
    \cup RawBodies

HeaderValues == {<<<<"s">>>>, <<<<"s">>, <<"t">>>>, <<>>}

HeaderMaps == UNION {[S -> HeaderValues] : S \in SUBSET FieldNames}

NoHeaders == [n \in {} |-> <<>>]

\* the maps redactJSONBody hands to redact: what Unmarshal leaves in data
DecodedMaps == {UnmarshalMap(b).data : b \in {c \in Bodies : ~UnmarshalMap(c).err}}

(***************************************************************************)
(* Contexts and loggers                                                    *)
(***************************************************************************)
\* the context keys of logger.go
LoggerKey == "logger"

LogIDKey == "log_id"

\* context.Background(), context.WithValue and ctx.Value
Background == [k \in {} |-> Null]

WithValue(ctx, key, val) == (key :> val) @@ ctx

Value(ctx, key) == IF key \in DOMAIN ctx THEN ctx[key] ELSE Null

\* the nil context.Context: no context holds its key
NilContext == [nil |-> Null]

\* a *zap.Logger: the log_id fields that With has attached to it
ZapLogger(fields) == [t |-> "logger", v |-> fields]

\* the logger handed to ServerLogging, to NewClientLogger, to NewGormLogger
\* and to NewGormResultLogPlugin
baseLogger == ZapLogger(<<>>)

\* logger.With(zap.String("log_id", logID))
With(logger, logID) == ZapLogger(Append(logger.v, logID))

(***************************************************************************)
(* The GORM result logger                                                  *)
(***************************************************************************)
IDField == <<"I","D">>

\* a record handed to a zap logger: the fields the logger carries, the
\* level, the message and the result field
LogRecord(logger, level, msg, result) ==
    [logger |-> logger.v, level |-> level, msg |-> msg, result |-> result]

\* json.Marshal(db.Statement.Dest) fails on a value it cannot encode
MarshalFails(dest) == dest.t = "chan"

\* the test of line 52 with >= for >
exceedsOrFills(resultJSON, max) == max > 0 /\ Len(resultJSON) >= max

\* p.cfg.LogResultMaxBytes > 0 && len(resultJSON) > p.cfg.LogResultMaxBytes
exceeds(resultJSON, max) == max > 0 /\ Len(resultJSON) > max

\* the size of a field counted without the shared delimiter
fieldSizeExact(key, value) == Len(Marshal(Obj(key :> value))) - 2

\* len(fieldJSON) - 1 for fieldJSON the encoding of the one-field object
fieldSize(key, value) == Len(Marshal(Obj(key :> value))) - 1

\* currentSize := 2, for the braces of the empty object
startSize == 2

\* currentSize started from 0, the braces not counted
initialSizeNoBraces(m) ==
    IF IDField \in DOMAIN m THEN fieldSize(IDField, m[IDField]) ELSE 0

\* currentSize after the ID field, if there is one, has been added
initialSize(m) ==
    2 + (IF IDField \in DOMAIN m THEN fieldSize(IDField, m[IDField]) ELSE 0)

\* truncatedMap after the ID field, if there is one, has been added
initialMap(m) ==
    IF IDField \in DOMAIN m THEN (IDField :> m[IDField]) ELSE EmptyFields

RECURSIVE truncateLoop(_, _, _, _, _, _)
\* the loop with continue for break: a field that does not fit is passed
\* over and the fields after it are still tried
truncateLoopSkipping(m, keys, i, currentSize, truncatedMap, max) ==
    IF i > Len(keys) THEN truncatedMap
    ELSE IF keys[i] = IDField \/ currentSize + fieldSize(keys[i], m[keys[i]]) > max
         THEN truncateLoop(m, keys, i + 1, currentSize, truncatedMap, max)
    ELSE truncateLoop(m, keys, i + 1, currentSize + fieldSize(keys[i], m[keys[i]]),
                      (keys[i] :> m[keys[i]]) @@ truncatedMap, max)

\* the loop over the sorted keys from keys[i] on: a field that does not fit
\* ends the loop
truncateLoop(m, keys, i, currentSize, truncatedMap, max) ==
    IF i > Len(keys) THEN truncatedMap
    ELSE IF keys[i] = IDField
         THEN truncateLoop(m, keys, i + 1, currentSize, truncatedMap, max)
    ELSE IF currentSize + fieldSize(keys[i], m[keys[i]]) > max THEN truncatedMap
    ELSE truncateLoop(m, keys, i + 1, currentSize + fieldSize(keys[i], m[keys[i]]),
                      (keys[i] :> m[keys[i]]) @@ truncatedMap, max)

\* the keys slice of lines 61-65 with the sort of line 66 left out
rangeKeysUnsorted(order) == order

\* the keys slice of lines 61-67: the keys appended in the order the range
\* statement enumerates them, then sorted by sort.Strings
rangeKeys(order) == SortStrings(Range(order))

\* the members name:value of fields for the names in keys, each preceded by
\* a comma
RECURSIVE MembersAfter(_, _, _)
MembersAfter(fields, keys, i) ==
    IF i > Len(keys) THEN <<>>
    ELSE <<",">> \o Quote(keys[i]) \o <<":">> \o Marshal(fields[keys[i]])
              \o MembersAfter(fields, keys, i + 1)

\* the serialization of fields that puts "ID" first and the other names
\* after it in ascending order; the ascending serialization when there is
\* no "ID"
IDFirstBytes(fields) ==
    IF IDField \notin DOMAIN fields THEN Marshal(Obj(fields))
    ELSE <<"{">> \o Quote(IDField) \o <<":">> \o Marshal(fields[IDField])
             \o MembersAfter(fields, SortStrings(DOMAIN fields \ {IDField}), 1)
             \o <<"}">>

\* the else branch of lines 58-90 writing the fields in the order in which
\* they were added to truncatedMap
truncateIDFirst(m, order, max) ==
    IDFirstBytes(truncateLoop(m, rangeKeys(order), 1, initialSize(m), initialMap(m), max))

\* the else branch of lines 58-90 for data that is a map whose keys the
\* range statement enumerates in the given order
truncate(m, order, max) ==
    Marshal(Obj(truncateLoop(m, rangeKeys(order), 1, initialSize(m), initialMap(m), max)))

\* currentSize and truncatedMap as a step of the accounting
LoopState(currentSize, truncatedMap) ==
    [currentSize |-> currentSize, truncatedMap |-> truncatedMap]

RECURSIVE loopStates(_, _, _, _, _, _)
\* the values currentSize and truncatedMap have at the head of the loop
\* from keys[i] on, and after it
loopStates(m, keys, i, currentSize, truncatedMap, max) ==
    <<LoopState(currentSize, truncatedMap)>> \o
    (IF i > Len(keys) THEN <<>>
     ELSE IF keys[i] = IDField
          THEN loopStates(m, keys, i + 1, currentSize, truncatedMap, max)
     ELSE IF currentSize + fieldSize(keys[i], m[keys[i]]) > max THEN <<>>
     ELSE loopStates(m, keys, i + 1, currentSize + fieldSize(keys[i], m[keys[i]]),
                     (keys[i] :> m[keys[i]]) @@ truncatedMap, max))

\* the accounting of lines 69-88: currentSize and truncatedMap when they
\* are set up, when the ID field has been added, and at each turn of the
\* loop
accounting(m, order, max) ==
    <<LoopState(startSize, EmptyFields)>> \o
    loopStates(m, rangeKeys(order), 1, initialSize(m), initialMap(m), max)

\* the first max bytes of resultJSON
sliceTo(resultJSON, max) == SubSeq(resultJSON, 1, max)

\* Initialize without the early return of lines 29-31
registersAlways(cfg) == TRUE

\* whether Initialize goes on to register the callback: not when
\* LogQueryResult is off
registers(cfg) == cfg.LogQueryResult

\* the orders in which the range statement of line 63 may enumerate the
\* keys of the decoded result: every permutation of the keys of a map, and
\* no enumeration at all when the line is not reached
rangeOrders(dest, max) ==
    IF MarshalFails(dest) \/ ~exceeds(Marshal(dest), max) THEN {<<>>}
    ELSE LET u == UnmarshalAny(Marshal(dest))
         IN  IF u.err \/ u.data.t # "obj" THEN {<<>>}
             ELSE {o \in [1..Cardinality(DOMAIN u.data.v) -> DOMAIN u.data.v] :
                      Range(o) = DOMAIN u.data.v}

\* NewGormResultLogPlugin(logger, cfg)
NewGormResultLogPlugin(logger, c) == [logger |-> logger, cfg |-> c]

\* lines 37-43: the logger the statement's context holds under LoggerKey;
\* the plugin's logger when the context is nil or holds none
resultLogger(p, ctx) ==
    IF ctx # NilContext /\ Value(ctx, LoggerKey).t = "logger"
    THEN Value(ctx, LoggerKey)
    ELSE p.logger

\* logResult for a statement with context ctx and destination dest: the
\* records it emits and whether it panics.  The type assertion
\* data.(map[string]interface{}) of line 71 panics when data is not a map.
logResult(p, ctx, dest, order) ==
    LET logger == resultLogger(p, ctx)
        max == p.cfg.LogResultMaxBytes
    IN
    IF MarshalFails(dest)
    THEN [emits |-> <<LogRecord(logger, "warn", "Failed to marshal GORM query result", <<>>)>>,
          panics |-> FALSE]
    ELSE LET resultJSON == Marshal(dest)
             u == UnmarshalAny(resultJSON)
         IN  IF ~exceeds(resultJSON, max)
             THEN [emits |-> <<LogRecord(logger, "debug", "GORM Query Result", resultJSON)>>,
                   panics |-> FALSE]
             ELSE IF u.err
             THEN [emits |-> <<LogRecord(logger, "warn", "Failed to unmarshal GORM query result for truncation", <<>>),
                               LogRecord(logger, "debug", "GORM Query Result", sliceTo(resultJSON, max))>>,
                   panics |-> FALSE]
             ELSE IF u.data.t # "obj"
             THEN [emits |-> <<>>, panics |-> TRUE]
             ELSE [emits |-> <<LogRecord(logger, "debug", "GORM Query Result", truncate(u.data.v, order, max))>>,
                   panics |-> FALSE]

(***************************************************************************)
(* Inputs of the result logger                                             *)
(***************************************************************************)
\* the largest LogResultMaxBytes
MaxBudget == 30
\* the most queries run on one connection, the calls of its GormLogger
\* counted with them
MaxQueries == 2

\* the fields of the result struct in declaration order: a primary key
\* first, as in gorm.Model, then a field that sorts before it and one that
\* sorts after it
DestFields == <<IDField, <<"A","t">>, <<"N">>>>

\* the largest 16-digit numeral; float64 rounds it up to 10^16
AllNines == <<"9","9","9","9","9","9","9","9","9","9","9","9","9","9","9","9">>

DestValues == {Num(<<"1">>), Num(BigNumeral), Num(AllNines), Str(<<"s">>), Str(<<"s","s","s","s">>)}

Field(name, val) == [name |-> name, val |-> val]

RECURSIVE StructsFrom(_)
\* the field lists that keep the declaration order from DestFields[i] on
StructsFrom(i) ==
    IF i > Len(DestFields) THEN {<<>>}
    ELSE LET rest == StructsFrom(i + 1)
         IN  rest \cup {<<Field(DestFields[i], v)>> \o r : v \in DestValues, r \in rest}

DestStructs == {Struct(fs) : fs \in StructsFrom(1)}

\* results that are not a struct: a slice of rows, a scalar, nil, a map, and
\* a value json.Marshal rejects
OtherDests == {
    Arr(<<>>),
    Arr(<<Struct(<<Field(IDField, Num(<<"1">>)), Field(<<"N">>, Str(<<"s">>))>>)>>),
    Str(<<"s","s","s","s">>),
    Null,
    Obj((<<"N">> :> Str(<<"s">>)) @@ (<<"I","d">> :> Num(<<"1">>)) @@ (IDField :> Str(<<"s","s","s","s">>))),
    [t |-> "chan", v |-> <<>>] }

Dests == DestStructs \cup OtherDests

Budgets == (-1)..MaxBudget

(***************************************************************************)
(* The HTTP middleware: ServerLogging and the logging RoundTripper         *)
(***************************************************************************)
\* the header name of logger.go
HeaderLogID == <<"X","-","R","e","q","u","e","s","t","-","I","D">>

\* http.StatusOK
StatusOK == 200

ToUpperChar(c) ==
    IF Code(c) >= 97 /\ Code(c) <= 122 THEN UpperCase[Code(c) - 96] ELSE c

\* textproto.CanonicalMIMEHeaderKey, which Header.Get and Header.Set apply to
\* the name: the first letter and every letter after a hyphen in upper case,
\* the others in lower case
CanonicalMIMEHeaderKey(s) ==
    [i \in 1..Len(s) |-> IF i = 1 \/ s[i - 1] = "-" THEN ToUpperChar(s[i])
                         ELSE ToLowerChar(s[i])]

\* r.Header.Get(key): the first value under the canonical name, "" if none
HeaderGet(h, key) ==
    LET k == CanonicalMIMEHeaderKey(key)
    IN  IF k \in DOMAIN h /\ Len(h[k]) > 0 THEN h[k][1] ELSE <<>>

\* r.Header.Set(key, value): the canonical name maps to the one value
HeaderSet(h, key, value) == (CanonicalMIMEHeaderKey(key) :> <<value>>) @@ h

\* s, _ := v.(string)
AssertString(v) == IF v.t = "str" THEN v.v ELSE <<>>

\* a record given to a logger: the fields the logger carries, the level, the
\* message and the fields of the call
Emit(logger, level, msg, fields) ==
    [ev |-> "log", logger |-> logger.v, level |-> level, msg |-> msg, fields |-> fields]

\* json.RawMessage(b) when len(b) > 0, the nil RawMessage otherwise
bodyForLog(b) == IF Len(b) > 0 THEN [t |-> "raw", v |-> b] ELSE Null

\* the skip test taken as a prefix match
skipsPrefix(path, skipPaths) ==
    \E p \in skipPaths : Len(p) <= Len(path) /\ SubSeq(path, 1, Len(p)) = p

\* the skip test left out
skipsNever(path, skipPaths) == FALSE

\* skipPaths[r.URL.Path] for the map built from cfg.SkipPaths
skips(path, skipPaths) == path \in skipPaths

\* a fresh id for every request, whatever its header
selectLogIDGenerated(headerValue, generated) == generated

\* lines 122-125: the X-Request-ID header, or uuid.NewString() when it is ""
selectLogID(headerValue, generated) ==
    IF headerValue = <<>> THEN generated ELSE headerValue

\* lines 128-133: the logger with the log id, and the request with the
\* context that holds both
serverLogger(logID) == With(baseLogger, logID)

serverRequest(r, logID) ==
    [r EXCEPT !.ctx = WithValue(WithValue(r.ctx, LoggerKey, serverLogger(logID)),
                                LogIDKey, Str(logID))]

\* lines 135-159: the "Request received" record
requestReceived(r, logID, redactKeys) ==
    Emit(serverLogger(logID), "info", "Request received",
         [path |-> r.path,
          headers |-> redactHeaders(r.header, redactKeys).hdr,
          body |-> bodyForLog(redactJSONBody(r.body, redactKeys))])

\* newResponseWriter(w)
newResponseWriter == [statusCode |-> StatusOK, body |-> <<>>]

\* lines 167-184: the "Response sent" record
responseSent(ctxLogger, r, rw, redactKeys) ==
    Emit(ctxLogger, "info", "Response sent",
         [path |-> r.path,
          status |-> rw.statusCode,
          body |-> bodyForLog(redactJSONBody(rw.body, redactKeys))])

\* the writer given to the middleware before anything is written, and what
\* WriteHeader and Write do to it: the first status stands, and a Write
\* without one sends StatusOK
newWriter == [wroteHeader |-> FALSE, status |-> 0, body |-> <<>>]

writeHeader(w, code) ==
    IF w.wroteHeader THEN w ELSE [w EXCEPT !.wroteHeader = TRUE, !.status = code]

write(w, b) == [writeHeader(w, StatusOK) EXCEPT !.body = @ \o b]

\* RoundTrip leaving the header of the request as the caller set it
outboundHeaderUnset(header, logID) == header

\* lines 65-71 of RoundTrip: r.Header.Set(HeaderLogID, logID) when the
\* context holds a non-empty log id
outboundHeader(header, logID) ==
    IF logID # <<>> THEN HeaderSet(header, HeaderLogID, logID) ELSE header

\* the logger RoundTrip logs through
clientLogger(logID) == IF logID # <<>> THEN With(baseLogger, logID) ELSE baseLogger

\* the request with the redacted copy of its header
nextRequestRedacted(r, header, redacted) == [r EXCEPT !.header = redacted]

\* the request lrt.next.RoundTrip is called with: r, whose header RoundTrip
\* has set the log id in; the redacted copy is only logged
nextRequest(r, header, redacted) == [r EXCEPT !.header = header]

\* RoundTrip that returns the error of the next transport without a record
RoundTripSilentFailure(r, out, redactKeys) ==
    LET logID     == AssertString(Value(r.ctx, LogIDKey))
        ctxLogger == clientLogger(logID)
        header    == outboundHeader(r.header, logID)
        redacted  == redactHeaders(header, redactKeys).hdr
        sent      == Emit(ctxLogger, "info", "Client request sent",
                          [headers |-> redacted,
                           body |-> bodyForLog(redactJSONBody(r.body, redactKeys))])
        next      == [ev |-> "next", r |-> nextRequest(r, header, redacted), out |-> out]
    IN  IF out.err # <<>>
        THEN [ev |-> "RoundTrip", r |-> r,
              trace |-> <<sent, next>>,
              resp |-> Null, err |-> out.err]
        ELSE [ev |-> "RoundTrip", r |-> r,
              trace |-> <<sent, next,
                          Emit(ctxLogger, "info", "Client response received",
                               [status |-> out.resp.StatusCode,
                                body |-> bodyForLog(redactJSONBody(out.resp.body, redactKeys))])>>,
              resp |-> out.resp, err |-> <<>>]

\* loggingRoundTripper.RoundTrip(r) when the next transport answers with
\* out: what happens, in order, and what is returned
RoundTrip(r, out, redactKeys) ==
    LET logID     == AssertString(Value(r.ctx, LogIDKey))
        ctxLogger == clientLogger(logID)
        header    == outboundHeader(r.header, logID)
        redacted  == redactHeaders(header, redactKeys).hdr
        sent      == Emit(ctxLogger, "info", "Client request sent",
                          [headers |-> redacted,
                           body |-> bodyForLog(redactJSONBody(r.body, redactKeys))])
        next      == [ev |-> "next", r |-> nextRequest(r, header, redacted), out |-> out]
    IN  IF out.err # <<>>
        THEN [ev |-> "RoundTrip", r |-> r,
              trace |-> <<sent, next,
                          Emit(ctxLogger, "error", "Client request failed",
                               [error |-> out.err])>>,
              resp |-> Null, err |-> out.err]
        ELSE [ev |-> "RoundTrip", r |-> r,
              trace |-> <<sent, next,
                          Emit(ctxLogger, "info", "Client response received",
                               [status |-> out.resp.StatusCode,
                                body |-> bodyForLog(redactJSONBody(out.resp.body, redactKeys))])>>,
              resp |-> out.resp, err |-> <<>>]

(***************************************************************************)
(* Inputs of the HTTP middleware                                           *)
(***************************************************************************)
\* the most calls a handler makes (WriteHeader, Write, outbound requests)
MaxHandlerCalls == 2

\* the canonical spelling of the log id header, as net/http stores it
XRequestId == CanonicalMIMEHeaderKey(HeaderLogID)

SecretHeader == <<"P","w">>

SecretBody == <<"{","\"","p","w","\"",":","\"","s","\"","}">>

Paths == {<<"/","h">>, <<"/","h","/">>, <<"/","a">>}

SkipPathLists == {<<>>, <<<<"/","h">>>>}

RedactKeyLists == {<<>>, <<<<"p","w">>>>, <<ToLower(HeaderLogID)>>}

HTTPConfigs == [SkipPaths : SkipPathLists, RedactKeys : RedactKeyLists]

\* the headers of an incoming request: a secret header, and no log id, an
\* empty one or "a"
InHeaders ==
    {ids @@ (SecretHeader :> <<<<"s">>>>) :
        ids \in {NoHeaders, XRequestId :> <<<<>>>>, XRequestId :> <<<<"a">>>>}}

Requests ==
    [path : Paths, header : InHeaders, ctx : {Background}, body : {SecretBody}]

\* the ids uuid.NewString() may return
UUIDs == {<<"u">>, <<"v">>}

StatusCodes == {201, 500}

\* a context that holds a log id of its own
OtherContext == WithValue(Background, LogIDKey, Str(<<"o">>))

\* the headers of an outbound request: a secret header, with or without a
\* log id header the caller has set
OutHeaders ==
    {SecretHeader :> <<<<"s">>>>,
     (SecretHeader :> <<<<"s">>>>) @@ (XRequestId :> <<<<"b">>>>)}

\* what the next transport returns: a response, an error, or an error
\* together with a response
Outcomes ==
    {[resp |-> [StatusCode |-> StatusOK, body |-> SecretBody], err |-> <<>>],
     [resp |-> Null, err |-> <<"r","e","f","u","s","e","d">>],
     [resp |-> [StatusCode |-> StatusOK, body |-> <<>>], err |-> <<"r","e","s","e","t">>]}

\* before any request: no request, no handler running
NoRequest == [path |-> <<>>, header |-> NoHeaders, ctx |-> Background, body |-> <<>>]

NoFrame == [ctxLogger |-> baseLogger, rw |-> newResponseWriter]

(***************************************************************************)
(* The GORM logger                                                         *)
(***************************************************************************)
\* gorm's log levels: logger.Silent, logger.Error, logger.Warn, logger.Info
Silent == 1

Error == 2

Warn == 3

Info == 4

\* time.Millisecond, in nanoseconds
Millisecond == 1000000

\* the slow query threshold when none is configured, in milliseconds
DefaultSlowQueryThresholdMs == 200

\* an error is the chain of errors that Unwrap goes through, outermost
\* first; the nil error is the empty chain
NoError == <<>>

ErrRecordNotFound == "record not found"

\* errors.Is(err, target)
errorsIs(err, target) == \E i \in DOMAIN err : err[i] = target

\* lines 22-30: the level for the configured level string
levelOf(level) ==
    CASE level = "silent" -> Silent
      [] level = "error" -> Error
      [] level = "warn" -> Warn
      [] OTHER -> Info

\* lines 32-35: the threshold as a time.Duration
thresholdOf(ms) ==
    IF ms > 0 THEN ms * Millisecond ELSE DefaultSlowQueryThresholdMs * Millisecond

NewGormLogger(zapLogger, gormConfig) ==
    [ZapLogger |-> zapLogger,
     LogLevel |-> levelOf(gormConfig.Level),
     SlowQueryThresholdMs |-> thresholdOf(gormConfig.SlowQueryThresholdMs)]

\* LogMode: a copy of the logger with the given level
LogMode(l, level) == [l EXCEPT !.LogLevel = level]

\* getLogger with the base logger whatever the context holds
getLoggerBase(l, ctx) == l.ZapLogger

\* getLogger: the logger the context holds under LoggerKey; the base logger
\* when the context is nil or holds none
getLogger(l, ctx) ==
    IF ctx # NilContext /\ Value(ctx, LoggerKey).t = "logger"
    THEN Value(ctx, LoggerKey)
    ELSE l.ZapLogger

\* l.LogLevel >= level
admits(l, level) == l.LogLevel >= level

\* the method Info: msg and data to the logger at Info, at level Info
GormLoggerInfo(l, ctx, msg, data) ==
    IF admits(l, Info) THEN <<Emit(getLogger(l, ctx), "info", msg, [data |-> data])>>
    ELSE <<>>

\* the method Warn: at level Warn and above
GormLoggerWarn(l, ctx, msg, data) ==
    IF admits(l, Warn) THEN <<Emit(getLogger(l, ctx), "warn", msg, [data |-> data])>>
    ELSE <<>>

\* the method Error: at level Error and above
GormLoggerError(l, ctx, msg, data) ==
    IF admits(l, Error) THEN <<Emit(getLogger(l, ctx), "error", msg, [data |-> data])>>
    ELSE <<>>

\* the slow test with >= for >
slowAtThreshold(elapsed, threshold) == elapsed >= threshold

\* elapsed > l.SlowQueryThresholdMs
slow(elapsed, threshold) == elapsed > threshold

\* Trace for a statement that took elapsed and ended with err; stmt is what
\* fc returns: the records it gives to the logger
Trace(l, ctx, elapsed, stmt, err) ==
    IF l.LogLevel <= Silent THEN <<>>
    ELSE IF err # NoError /\ ~errorsIs(err, ErrRecordNotFound)
    THEN <<Emit(getLogger(l, ctx), "error", "GORM Trace",
                [latency |-> elapsed, rows |-> stmt.rows, sql |-> stmt.sql, error |-> err])>>
    ELSE IF slow(elapsed, l.SlowQueryThresholdMs)
    THEN <<Emit(getLogger(l, ctx), "warn", "GORM Trace (Slow Query)",
                [latency |-> elapsed, rows |-> stmt.rows, sql |-> stmt.sql])>>
    ELSE <<Emit(getLogger(l, ctx), "info", "GORM Trace",
                [latency |-> elapsed, rows |-> stmt.rows, sql |-> stmt.sql])>>

(***************************************************************************)
(* Inputs of the GORM logger                                               *)
(***************************************************************************)
\* the most calls of the methods of the GormLogger, the queries of the
\* connection counted with them
MaxTraces == 2

\* the level strings of the configuration, one of them not a level, and a
\* threshold left unset or set to one millisecond
GormConfigs ==
    [Level : {"silent", "error", "warn", "info", "debug"}, SlowQueryThresholdMs : {0, 1}]

\* the levels LogMode is called with: by a silent session, by db.Debug()
LogLevels == {Silent, Info}

\* how long a statement takes: the threshold of the logger, and a
\* nanosecond more
Elapsed(l) == {l.SlowQueryThresholdMs, l.SlowQueryThresholdMs + 1}

\* how a statement ends: without error, with gorm.ErrRecordNotFound, bare or
\* wrapped, or with another error
Errors == {NoError, <<ErrRecordNotFound>>, <<"find user", ErrRecordNotFound>>,
           <<"connection refused">>}

\* what fc returns
Statements == {[sql |-> "SELECT 1", rows |-> 1]}

\* the contexts of a statement: nil, without a logger, and with the logger
\* of a request
TraceContexts ==
    {NilContext, Background, WithValue(Background, LoggerKey, With(baseLogger, <<"a">>))}

\* what gorm tells through Info, Warn and Error
Messages == {"msg"}

\* the results of the sessions with contexts: a row, and a value that
\* json.Marshal cannot encode
ContextDests == {Struct(<<Field(IDField, Num(<<"1">>))>>), [t |-> "chan", v |-> <<>>]}

NoCall == [op |-> "", l |-> NewGormLogger(baseLogger, [Level |-> "", SlowQueryThresholdMs |-> 0]),
           ctx |-> Background, elapsed |-> 0, err |-> NoError, before |-> 0]

(***************************************************************************)
(* The redaction engine step by step, on a heap                            *)
(***************************************************************************)
\* A map or a slice is an object at an address; an address names the
\* goroutine that allocated the object (0 for the caller of the
\* invocations) and the number of the allocation.  A value that is a map
\* or a slice is a reference to its object.
Ref(a) == [t |-> "ref", v |-> a]

MapObject(m) == [k |-> "map", v |-> m]

SliceObject(s) == [k |-> "slice", v |-> s]

EmptyHeap == [a \in {} |-> MapObject(EmptyFields)]

NoAddr == <<0, 0>>

\* the arguments of the invocations: headers, keysToRedact, body and data
headersAddr == <<0, 1>>

keysAddr == <<0, 2>>

bodyAddr == <<0, 3>>

dataAddr == <<0, 4>>

RECURSIVE StoreValue(_, _, _), StoreFields(_, _, _, _, _), StoreItems(_, _, _, _)
\* the decoded value val laid out as objects of owner from number n on: the
\* value that refers to it, the objects, and the next free number
StoreValue(val, owner, n) ==
    IF val.t \in {"obj", "nilmap"}
    THEN LET r == StoreFields(val.v, SortStrings(MapKeys(val)), 1, owner, n + 1)
         IN  [val |-> Ref(<<owner, n>>),
              objs |-> (<<owner, n>> :> MapObject(r.m)) @@ r.objs, n |-> r.n]
    ELSE IF val.t = "arr"
    THEN LET r == StoreItems(val.v, 1, owner, n + 1)
         IN  [val |-> Ref(<<owner, n>>),
              objs |-> (<<owner, n>> :> SliceObject(r.s)) @@ r.objs, n |-> r.n]
    ELSE [val |-> val, objs |-> EmptyHeap, n |-> n]

StoreFields(fields, names, i, owner, n) ==
    IF i > Len(names) THEN [m |-> EmptyFields, objs |-> EmptyHeap, n |-> n]
    ELSE LET x == StoreValue(fields[names[i]], owner, n)
             rest == StoreFields(fields, names, i + 1, owner, x.n)
         IN  [m |-> (names[i] :> x.val) @@ rest.m, objs |-> x.objs @@ rest.objs, n |-> rest.n]

StoreItems(items, i, owner, n) ==
    IF i > Len(items) THEN [s |-> <<>>, objs |-> EmptyHeap, n |-> n]
    ELSE LET x == StoreValue(items[i], owner, n)
             rest == StoreItems(items, i + 1, owner, x.n)
         IN  [s |-> <<x.val>> \o rest.s, objs |-> x.objs @@ rest.objs, n |-> rest.n]

RECURSIVE Deref(_, _)
\* the value that v is in the heap h, its references followed
Deref(h, v) ==
    IF v.t # "ref" THEN v
    ELSE IF h[v.v].k = "map"
    THEN Obj([n \in DOMAIN h[v.v].v |-> Deref(h, h[v.v].v[n])])
    ELSE Arr([i \in 1..Len(h[v.v].v) |-> Deref(h, h[v.v].v[i])])

\* the heap with the object obj at a, unless a holds an object already
Allocate(h, a, obj) == IF a \in DOMAIN h THEN h ELSE (a :> obj) @@ h

\* m[key] = val for the map at a
Assign(h, a, key, val) == [h EXCEPT ![a].v = (key :> val) @@ @]

\* the frame of a call of op with the argument at src and the keys at keys
Frame(op, src, keys) ==
    [op |-> op, pc |-> "start", src |-> src, keys |-> keys, i |-> 1, keyMap |-> NoAddr,
     out |-> NoAddr, todo |-> {}, cur |-> <<>>, arr |-> NoAddr, idx |-> 1,
     newSlice |-> NilSlice]

\* a goroutine: the function it was started with, its stack, the value the
\* last call returned and the number of its next allocation
NoGoroutine == [fn |-> "", stack |-> <<>>, ret |-> Null, n |-> 1]

Top(p) == p.stack[Len(p.stack)]

SetTop(p, f) == [p EXCEPT !.stack[Len(p.stack)] = f]

Push(p, f) == [p EXCEPT !.stack = Append(@, f)]

Return(p, r) == [p EXCEPT !.stack = SubSeq(@, 1, Len(@) - 1), !.ret = r]

\* the heap and the goroutine after a step
Outcome(h, p) == [heap |-> h, proc |-> p]

\* the loop `for _, key := range keysToRedact`, one key at a step, and then
\* the start of the range over the argument
keysStep(h, p) ==
    LET f == Top(p)
    IN  IF f.i <= Len(h[f.keys].v)
        THEN Outcome(Assign(h, f.keyMap, ToLower(h[f.keys].v[f.i]), Null),
                     SetTop(p, [f EXCEPT !.i = @ + 1]))
        ELSE Outcome(h, SetTop(p, [f EXCEPT !.pc = "range", !.todo = DOMAIN h[f.src].v]))

\* redactedHeaders := headers for make(http.Header)
aliasHeader(src, fresh) == src

\* redactedHeaders := make(http.Header)
makeHeader(src, fresh) == fresh

\* a step of redactHeaders in goroutine g; key is the key the range over
\* headers yields at this step
redactHeadersStep(h, p, g, key) ==
    LET f == Top(p)
    IN  CASE f.pc = "start" ->
               IF Len(h[f.keys].v) = 0 THEN Outcome(h, Return(p, Ref(f.src)))
               ELSE LET out == makeHeader(f.src, <<g, p.n>>)
                        km == <<g, p.n + 1>>
                    IN  Outcome(Allocate(Allocate(h, out, MapObject(NoHeaders)),
                                         km, MapObject(EmptyFields)),
                                SetTop([p EXCEPT !.n = @ + 2],
                                       [f EXCEPT !.pc = "keys", !.out = out, !.keyMap = km]))
          [] f.pc = "keys" -> keysStep(h, p)
          [] f.pc = "range" ->
               IF f.todo = {} THEN Outcome(h, Return(p, Ref(f.out)))
               ELSE Outcome(Assign(h, f.out, key,
                                   IF matches(key, DOMAIN h[f.keyMap].v)
                                   THEN <<redactionPlaceholder>>
                                   ELSE h[f.src].v[key]),
                            SetTop(p, [f EXCEPT !.todo = @ \ {key}]))

\* redactedData := data for make(map[string]interface{})
aliasData(src, fresh) == src

\* redactedData := make(map[string]interface{})
makeData(src, fresh) == fresh

\* a step of redact in goroutine g; key is the key the range over data
\* yields at this step
redactStep(h, p, g, key) ==
    LET f == Top(p)
    IN  CASE f.pc = "start" ->
               LET out == makeData(f.src, <<g, p.n>>)
                   km == <<g, p.n + 1>>
               IN  Outcome(Allocate(Allocate(h, out, MapObject(EmptyFields)),
                                    km, MapObject(EmptyFields)),
                           SetTop([p EXCEPT !.n = @ + 2],
                                  [f EXCEPT !.pc = "keys", !.out = out, !.keyMap = km]))
          [] f.pc = "keys" -> keysStep(h, p)
          [] f.pc = "range" ->
               IF f.todo = {} THEN Outcome(h, Return(p, Ref(f.out)))
               ELSE LET value == h[f.src].v[key]
                        f2 == [f EXCEPT !.todo = @ \ {key}, !.cur = key]
                    IN  IF matches(key, DOMAIN h[f.keyMap].v)
                        THEN Outcome(Assign(h, f.out, key, Str(redactionPlaceholder)),
                                     SetTop(p, f2))
                        ELSE IF value.t = "ref" /\ h[value.v].k = "map"
                        THEN Outcome(h, Push(SetTop(p, [f2 EXCEPT !.pc = "field"]),
                                             Frame("redact", value.v, f.keys)))
                        ELSE IF value.t = "ref"
                        THEN Outcome(h, SetTop(p, [f2 EXCEPT !.pc = "slice", !.arr = value.v,
                                                              !.idx = 1, !.newSlice = NilSlice]))
                        ELSE Outcome(Assign(h, f.out, key, value), SetTop(p, f2))
          [] f.pc = "field" ->
               Outcome(Assign(h, f.out, f.cur, p.ret), SetTop(p, [f EXCEPT !.pc = "range"]))
          [] f.pc = "slice" ->
               IF f.idx > Len(h[f.arr].v)
               THEN IF f.newSlice = NilSlice
                    THEN Outcome(Assign(h, f.out, f.cur, NilSlice),
                                 SetTop(p, [f EXCEPT !.pc = "range"]))
                    ELSE Outcome(Assign(Allocate(h, <<g, p.n>>, SliceObject(f.newSlice.v)),
                                        f.out, f.cur, Ref(<<g, p.n>>)),
                                 SetTop([p EXCEPT !.n = @ + 1], [f EXCEPT !.pc = "range"]))
               ELSE LET item == h[f.arr].v[f.idx]
                    IN  IF item.t = "ref" /\ h[item.v].k = "map"
                        THEN Outcome(h, Push(SetTop(p, [f EXCEPT !.pc = "item"]),
                                             Frame("redact", item.v, f.keys)))
                        ELSE Outcome(h, SetTop(p, [f EXCEPT !.newSlice = Arr(Append(@.v, item)),
                                                             !.idx = @ + 1]))
          [] f.pc = "item" ->
               Outcome(h, SetTop(p, [f EXCEPT !.newSlice = Arr(Append(@.v, p.ret)),
                                              !.idx = @ + 1, !.pc = "slice"]))

\* a step of redactJSONBody in goroutine g: the early return or
\* json.Unmarshal and the call of redact, then json.Marshal
redactJSONBodyStep(h, p, g) ==
    LET f == Top(p)
    IN  CASE f.pc = "start" ->
               IF Len(h[f.keys].v) = 0 \/ Len(h[f.src].v) = 0 \/ UnmarshalMap(h[f.src].v).err
               THEN Outcome(h, Return(p, Ref(f.src)))
               ELSE LET st == StoreValue(UnmarshalMap(h[f.src].v).data, g, p.n)
                    IN  Outcome(st.objs @@ h,
                                Push(SetTop([p EXCEPT !.n = st.n], [f EXCEPT !.pc = "marshal"]),
                                     Frame("redact", st.val.v, f.keys)))
          [] f.pc = "marshal" ->
               Outcome(Allocate(h, <<g, p.n>>, SliceObject(Marshal(Deref(h, p.ret)))),
                       Return([p EXCEPT !.n = @ + 1], Ref(<<g, p.n>>)))

\* the argument a goroutine started with fn passes
ArgumentOf(fn) ==
    CASE fn = "redactHeaders" -> headersAddr
      [] fn = "redact" -> dataAddr
      [] fn = "redactJSONBody" -> bodyAddr

(***************************************************************************)
(* Inputs of the concurrent invocations                                    *)
(***************************************************************************)
\* the most goroutines that invoke the engine at the same time
MaxGoroutines == 2

Functions == {"redactHeaders", "redact", "redactJSONBody"}

\* no keys, a key that matches a header and the secret of every document,
\* and two keys in another case that match every header and field
SharedKeyLists == {<<>>, <<<<"p","w">>>>, << <<"P","W">>, <<"N">> >>}

SharedHeaders == (<<"P","w">> :> <<<<"s">>>>) @@ (<<"n">> :> <<<<"t">>>>)

\* a document with a secret beside a number, one with the secret in an
\* object of an object, one with it in an object of an array, and one
\* with a number, an array and an empty array in an array
SharedDocs ==
    {Obj((<<"p","w">> :> Str(<<"s">>)) @@ (<<"n">> :> Num(<<"7">>))),
     Obj(<<"n">> :> Obj(<<"P","w">> :> Obj(<<"n">> :> Null))),
     Obj(<<"n">> :> Arr(<<Obj(<<"P","w">> :> Str(<<"s">>))>>)),
     Obj((<<"n">> :> Arr(<<Num(<<"7">>), Arr(<<Obj(<<"p","w">> :> Null)>>)>>))
         @@ (<<"t">> :> Arr(<<>>)))}

(***************************************************************************)
(* State                                                                   *)
(***************************************************************************)
VARIABLES
    keysToRedact,     \* the configured RedactKeys
    headers,          \* the header map handed to redactHeaders
    data,             \* the map handed to redact
    body,             \* the byte slice handed to redactJSONBody
    redactedHeaders,  \* what the calls of redactHeaders returned, in order
    redactedData,     \* what the calls of redact returned, in order
    redactedBody,     \* what the calls of redactJSONBody returned, in order
    cfg,              \* GormConfig: LogQueryResult, LogResultMaxBytes
    dest,             \* db.Statement.Dest of the queries
    stmtCtx,          \* db.Statement.Context of the queries
    registered,       \* whether the plugin's query callback is registered
    initialized,      \* whether Initialize has run
    queries,          \* the number of queries run
    panicked,         \* whether a callback has panicked
    logs,             \* the records given to the logger, in order
    httpCfg,          \* Config of the middleware: SkipPaths, RedactKeys
    req,              \* the request the middleware was called with
    pc,               \* "idle", "handler" while the wrapped handler runs, then "done"
    handed,           \* the writer and the request given to the wrapped handler
    frame,            \* the locals of ServerLogging that live across the call: ctxLogger, rw
    w,                \* the writer the middleware was called with
    calls,            \* the number of calls the handler has made
    events,           \* what has happened since the request arrived, in order
    gormCfg,          \* GormConfig: Level, SlowQueryThresholdMs
    gormLogger,       \* the GormLogger in use: LogLevel, SlowQueryThresholdMs
    traces,           \* the number of calls of the methods of the GormLogger
    call,             \* the latest of them: the method, its logger and arguments
    gormLogs,         \* the records the GormLogger has given to the logger, in order
    heap,             \* the maps and slices of the concurrent invocations, by address
    procs             \* the goroutines that invoke the engine, in the order they start

redactVars == <<keysToRedact, headers, data, body, redactedHeaders, redactedData, redactedBody>>

gormVars == <<cfg, dest, stmtCtx, registered, initialized, queries, panicked, logs>>

httpVars == <<httpCfg, req, pc, handed, frame, w, calls, events>>

loggerVars == <<gormCfg, gormLogger, traces, call, gormLogs>>

concVars == <<heap, procs>>

vars == <<redactVars, gormVars, httpVars, loggerVars, concVars>>

Last(s) == s[Len(s)]

\* the redaction engine before any call
RedactIdle ==
    /\ keysToRedact = <<>>
    /\ headers = NoHeaders
    /\ data = NilMap
    /\ body = <<>>
    /\ redactedHeaders = <<>>
    /\ redactedData = <<>>
    /\ redactedBody = <<>>

\* no database connection
GormIdle ==
    /\ cfg = [LogQueryResult |-> FALSE, LogResultMaxBytes |-> 0]
    /\ dest = Null
    /\ stmtCtx = Background
    /\ registered = FALSE
    /\ initialized = FALSE
    /\ queries = 0
    /\ panicked = FALSE
    /\ logs = <<>>

\* no middleware
HTTPIdle ==
    /\ httpCfg = [SkipPaths |-> <<>>, RedactKeys |-> <<>>]
    /\ req = NoRequest
    /\ pc = "idle"
    /\ handed = [w |-> "w", r |-> NoRequest]
    /\ frame = NoFrame
    /\ w = newWriter
    /\ calls = 0
    /\ events = <<>>

\* no concurrent invocations
ConcIdle ==
    /\ heap = EmptyHeap
    /\ procs = <<>>

\* no GormLogger in use
LoggerIdle ==
    /\ gormCfg = [Level |-> "", SlowQueryThresholdMs |-> 0]
    /\ gormLogger = NewGormLogger(baseLogger, gormCfg)
    /\ traces = 0
    /\ call = NoCall
    /\ gormLogs = <<>>

InitRedact ==
    /\ keysToRedact \in KeyLists
    /\ \/ headers \in HeaderMaps /\ data = NilMap /\ body = <<>>
       \/ headers = NoHeaders /\ data \in DecodedMaps /\ body = <<>>
       \/ headers = NoHeaders /\ data = NilMap /\ body \in Bodies
    /\ redactedHeaders = <<>>
    /\ redactedData = <<>>
    /\ redactedBody = <<>>
    /\ GormIdle
    /\ HTTPIdle
    /\ LoggerIdle
    /\ ConcIdle

\* redactHeaders(headers, keysToRedact), then again on the map it returned
RedactHeaders ==
    /\ Len(redactedHeaders) < MaxCalls
    /\ redactedData = <<>> /\ redactedBody = <<>>
    /\ redactedHeaders' = Append(redactedHeaders,
          redactHeaders(IF redactedHeaders = <<>> THEN headers ELSE Last(redactedHeaders).hdr,
                        keysToRedact))
    /\ UNCHANGED <<keysToRedact, headers, data, body, redactedData, redactedBody, gormVars, httpVars, loggerVars, concVars>>

\* redact(data, keysToRedact), then again on the map it returned
Redact ==
    /\ Len(redactedData) < MaxCalls
    /\ redactedHeaders = <<>> /\ redactedBody = <<>>
    /\ redactedData' = Append(redactedData,
          redact(IF redactedData = <<>> THEN data ELSE Last(redactedData), keysToRedact))
    /\ UNCHANGED <<keysToRedact, headers, data, body, redactedHeaders, redactedBody, gormVars, httpVars, loggerVars, concVars>>

\* redactJSONBody(body, keysToRedact), then again on the bytes it returned
RedactJSONBody ==
    /\ Len(redactedBody) < MaxCalls
    /\ redactedHeaders = <<>> /\ redactedData = <<>>
    /\ redactedBody' = Append(redactedBody,
          redactJSONBody(IF redactedBody = <<>> THEN body ELSE Last(redactedBody), keysToRedact))
    /\ UNCHANGED <<keysToRedact, headers, data, body, redactedHeaders, redactedData, gormVars, httpVars, loggerVars, concVars>>

Init == InitRedact

Next == RedactHeaders \/ Redact \/ RedactJSONBody

Spec == Init /\ [][Next]_vars

InitGorm ==
    /\ cfg \in [LogQueryResult : BOOLEAN, LogResultMaxBytes : Budgets]
    /\ dest \in Dests
    /\ stmtCtx = Background
    /\ registered = FALSE
    /\ initialized = FALSE
    /\ queries = 0
    /\ panicked = FALSE
    /\ logs = <<>>
    /\ RedactIdle
    /\ HTTPIdle
    /\ LoggerIdle
    /\ ConcIdle

\* db.Use(plugin): Initialize registers logResult after gorm:query, unless
\* LogQueryResult is off
Initialize ==
    /\ ~initialized
    /\ initialized' = TRUE
    /\ registered' = registers(cfg)
    /\ UNCHANGED <<cfg, dest, stmtCtx, queries, panicked, logs, redactVars, httpVars, loggerVars, concVars>>

\* a query into dest completes and the callbacks after gorm:query run
Query ==
    /\ initialized
    /\ ~panicked
    /\ queries + traces < MaxQueries
    /\ queries' = queries + 1
    /\ IF registered
       THEN \E order \in rangeOrders(dest, cfg.LogResultMaxBytes) :
               LET r == logResult(NewGormResultLogPlugin(baseLogger, cfg), stmtCtx, dest, order)
               IN  /\ logs' = logs \o r.emits
                   /\ panicked' = r.panics
       ELSE UNCHANGED <<logs, panicked>>
    /\ UNCHANGED <<cfg, dest, stmtCtx, registered, initialized, redactVars, httpVars, loggerVars, concVars>>

NextGorm == Initialize \/ Query

SpecGorm == InitGorm /\ [][NextGorm]_vars

InitHTTP ==
    /\ httpCfg \in HTTPConfigs
    /\ req = NoRequest
    /\ pc = "idle"
    /\ handed = [w |-> "w", r |-> NoRequest]
    /\ frame = NoFrame
    /\ w = newWriter
    /\ calls = 0
    /\ events = <<>>
    /\ RedactIdle
    /\ GormIdle
    /\ LoggerIdle
    /\ ConcIdle

\* the middleware is called with a request and runs up to its call of
\* next.ServeHTTP: with the caller's writer and request at once for a
\* skipped path, and after "Request received" with the wrapped writer and
\* the request that carries the new context otherwise
ServerLoggingEnter ==
    /\ pc = "idle"
    /\ \E r \in Requests, uuid \in UUIDs :
          /\ req' = r
          /\ IF skips(r.path, Range(httpCfg.SkipPaths))
             THEN /\ handed' = [w |-> "w", r |-> r]
                  /\ frame' = NoFrame
                  /\ events' = <<[ev |-> "invoke", w |-> "w", r |-> r]>>
             ELSE LET logID == selectLogID(HeaderGet(r.header, HeaderLogID), uuid)
                      r2    == serverRequest(r, logID)
                  IN  /\ handed' = [w |-> "rw", r |-> r2]
                      /\ frame' = [ctxLogger |-> serverLogger(logID),
                                   rw |-> newResponseWriter]
                      /\ events' = <<requestReceived(r2, logID, httpCfg.RedactKeys),
                                     [ev |-> "invoke", w |-> "rw", r |-> r2]>>
    /\ pc' = "handler"
    /\ w' = newWriter
    /\ calls' = 0
    /\ UNCHANGED <<httpCfg, redactVars, gormVars, loggerVars, concVars>>

\* the handler calls WriteHeader on the writer it was given
HandlerWriteHeader ==
    /\ pc = "handler"
    /\ calls < MaxHandlerCalls
    /\ \E code \in StatusCodes :
          /\ frame' = IF handed.w = "rw" THEN [frame EXCEPT !.rw.statusCode = code]
                      ELSE frame
          /\ w' = writeHeader(w, code)
          /\ events' = Append(events, [ev |-> "WriteHeader", code |-> code])
    /\ calls' = calls + 1
    /\ UNCHANGED <<httpCfg, req, pc, handed, redactVars, gormVars, loggerVars, concVars>>

\* the handler calls Write on the writer it was given
HandlerWrite ==
    /\ pc = "handler"
    /\ calls < MaxHandlerCalls
    /\ \E b \in {SecretBody} :
          /\ frame' = IF handed.w = "rw" THEN [frame EXCEPT !.rw.body = @ \o b]
                      ELSE frame
          /\ w' = write(w, b)
          /\ events' = Append(events, [ev |-> "Write", b |-> b])
    /\ calls' = calls + 1
    /\ UNCHANGED <<httpCfg, req, pc, handed, redactVars, gormVars, loggerVars, concVars>>

\* the handler sends a request through the logging RoundTripper, with the
\* context of its own request or with another one
HandlerRoundTrip ==
    /\ pc = "handler"
    /\ calls < MaxHandlerCalls
    /\ \E ctx \in {handed.r.ctx, OtherContext}, h \in OutHeaders, out \in Outcomes :
          events' = Append(events,
                           RoundTrip([path |-> <<"/","a">>, header |-> h, ctx |-> ctx,
                                      body |-> SecretBody],
                                     out, httpCfg.RedactKeys))
    /\ calls' = calls + 1
    /\ UNCHANGED <<httpCfg, req, pc, handed, frame, w, redactVars, gormVars, loggerVars, concVars>>

\* the handler returns and the middleware runs to its end: "Response sent"
\* unless the path was skipped.  The middleware keeps nothing from one
\* request to the next, so the model follows one request.
ServerLoggingLeave ==
    /\ pc = "handler"
    /\ pc' = "done"
    /\ events' = IF handed.w = "w" THEN Append(events, [ev |-> "return"])
                 ELSE events \o <<[ev |-> "return"],
                                  responseSent(frame.ctxLogger, handed.r, frame.rw,
                                               httpCfg.RedactKeys)>>
    /\ UNCHANGED <<httpCfg, req, handed, frame, w, calls, redactVars, gormVars, loggerVars, concVars>>

NextHTTP ==
    \/ ServerLoggingEnter
    \/ HandlerWriteHeader
    \/ HandlerWrite
    \/ HandlerRoundTrip
    \/ ServerLoggingLeave

SpecHTTP == InitHTTP /\ [][NextHTTP]_vars

InitLogger ==
    /\ gormCfg \in GormConfigs
    /\ gormLogger = NewGormLogger(baseLogger, gormCfg)
    /\ traces = 0
    /\ call = NoCall
    /\ gormLogs = <<>>
    /\ RedactIdle
    /\ GormIdle
    /\ HTTPIdle
    /\ ConcIdle

\* db.Logger.LogMode(level): the connection goes on with the copy
LogModeCall ==
    /\ \E level \in LogLevels : gormLogger' = LogMode(gormLogger, level)
    /\ UNCHANGED <<gormCfg, traces, call, gormLogs, redactVars, gormVars, httpVars, concVars>>

\* gorm reports a statement to Trace
TraceCall ==
    /\ queries + traces < MaxTraces
    /\ \E ctx \in TraceContexts, elapsed \in Elapsed(gormLogger), stmt \in Statements, err \in Errors :
          /\ gormLogs' = gormLogs \o Trace(gormLogger, ctx, elapsed, stmt, err)
          /\ call' = [op |-> "Trace", l |-> gormLogger, ctx |-> ctx, elapsed |-> elapsed,
                      err |-> err, before |-> Len(gormLogs)]
    /\ traces' = traces + 1
    /\ UNCHANGED <<gormCfg, gormLogger, redactVars, gormVars, httpVars, concVars>>

\* the call of Info, Warn or Error as the latest call
Said(op, ctx) ==
    [op |-> op, l |-> gormLogger, ctx |-> ctx, elapsed |-> 0, err |-> NoError,
     before |-> Len(gormLogs)]

\* gorm tells something through Info
InfoCall ==
    /\ queries + traces < MaxTraces
    /\ \E ctx \in TraceContexts, msg \in Messages :
          /\ gormLogs' = gormLogs \o GormLoggerInfo(gormLogger, ctx, msg, <<>>)
          /\ call' = Said("Info", ctx)
    /\ traces' = traces + 1
    /\ UNCHANGED <<gormCfg, gormLogger, redactVars, gormVars, httpVars, concVars>>

\* gorm tells something through Warn
WarnCall ==
    /\ queries + traces < MaxTraces
    /\ \E ctx \in TraceContexts, msg \in Messages :
          /\ gormLogs' = gormLogs \o GormLoggerWarn(gormLogger, ctx, msg, <<>>)
          /\ call' = Said("Warn", ctx)
    /\ traces' = traces + 1
    /\ UNCHANGED <<gormCfg, gormLogger, redactVars, gormVars, httpVars, concVars>>

\* gorm tells something through Error
ErrorCall ==
    /\ queries + traces < MaxTraces
    /\ \E ctx \in TraceContexts, msg \in Messages :
          /\ gormLogs' = gormLogs \o GormLoggerError(gormLogger, ctx, msg, <<>>)
          /\ call' = Said("Error", ctx)
    /\ traces' = traces + 1
    /\ UNCHANGED <<gormCfg, gormLogger, redactVars, gormVars, httpVars, concVars>>

NextLogger == LogModeCall \/ TraceCall \/ InfoCall \/ WarnCall \/ ErrorCall

SpecLogger == InitLogger /\ [][NextLogger]_vars

\* a connection with both the result plugin and the GormLogger, whose
\* sessions are given contexts: results without a budget, the logger at
\* level "info"
InitContext ==
    /\ cfg = [LogQueryResult |-> TRUE, LogResultMaxBytes |-> 0]
    /\ dest \in ContextDests
    /\ stmtCtx = Background
    /\ registered = FALSE
    /\ initialized = FALSE
    /\ queries = 0
    /\ panicked = FALSE
    /\ logs = <<>>
    /\ gormCfg = [Level |-> "info", SlowQueryThresholdMs |-> 0]
    /\ gormLogger = NewGormLogger(baseLogger, gormCfg)
    /\ traces = 0
    /\ call = NoCall
    /\ gormLogs = <<>>
    /\ RedactIdle
    /\ HTTPIdle
    /\ ConcIdle

\* db.WithContext(ctx): the statements that follow carry ctx
WithContext ==
    /\ \E ctx \in TraceContexts : ctx # stmtCtx /\ stmtCtx' = ctx
    /\ UNCHANGED <<cfg, dest, registered, initialized, queries, panicked, logs,
                   redactVars, httpVars, loggerVars, concVars>>

NextContext ==
    \/ Initialize
    \/ WithContext
    \/ Query
    \/ LogModeCall
    \/ TraceCall
    \/ InfoCall
    \/ WarnCall
    \/ ErrorCall

SpecContext == InitContext /\ [][NextContext]_vars

\* the caller's arguments, made once and shared by every invocation
InitConcurrent ==
    /\ keysToRedact \in SharedKeyLists
    /\ headers = SharedHeaders
    /\ data \in SharedDocs
    /\ body = Marshal(data)
    /\ redactedHeaders = <<>>
    /\ redactedData = <<>>
    /\ redactedBody = <<>>
    /\ heap = (headersAddr :> MapObject(headers)) @@ (keysAddr :> SliceObject(keysToRedact))
              @@ (bodyAddr :> SliceObject(body)) @@ StoreValue(data, 0, dataAddr[2]).objs
    /\ procs = <<>>
    /\ GormIdle
    /\ HTTPIdle
    /\ LoggerIdle

\* go redactHeaders(headers, keys), go redact(data, keys) or
\* go redactJSONBody(body, keys): one more goroutine with the shared arguments
Go ==
    /\ Len(procs) < MaxGoroutines
    /\ \E fn \in Functions :
          procs' = Append(procs, [NoGoroutine EXCEPT
                                     !.fn = fn,
                                     !.stack = <<Frame(fn, ArgumentOf(fn), keysAddr)>>])
    /\ UNCHANGED <<heap, redactVars, gormVars, httpVars, loggerVars>>

\* goroutine g is inside a call of op
Running(g, op) == procs[g].stack # <<>> /\ Top(procs[g]).op = op

\* the keys the range of the top frame of p can yield next
Yields(p) ==
    IF Top(p).pc = "range" /\ Top(p).todo # {} THEN Top(p).todo ELSE {<<>>}

\* the heap and goroutine g become what the step left
Becomes(g, o) ==
    /\ heap' = o.heap
    /\ procs' = [procs EXCEPT ![g] = o.proc]
    /\ UNCHANGED <<redactVars, gormVars, httpVars, loggerVars>>

\* the scheduler runs a step of a goroutine that is inside redactHeaders
StepRedactHeaders ==
    \E g \in DOMAIN procs :
        /\ Running(g, "redactHeaders")
        /\ \E key \in Yields(procs[g]) : Becomes(g, redactHeadersStep(heap, procs[g], g, key))

\* the scheduler runs a step of a goroutine that is inside redact
StepRedact ==
    \E g \in DOMAIN procs :
        /\ Running(g, "redact")
        /\ \E key \in Yields(procs[g]) : Becomes(g, redactStep(heap, procs[g], g, key))

\* the scheduler runs a step of a goroutine that is inside redactJSONBody
StepRedactJSONBody ==
    \E g \in DOMAIN procs :
        /\ Running(g, "redactJSONBody")
        /\ Becomes(g, redactJSONBodyStep(heap, procs[g], g))

NextConcurrent == Go \/ StepRedactHeaders \/ StepRedact \/ StepRedactJSONBody

SpecConcurrent == InitConcurrent /\ [][NextConcurrent]_vars

(***************************************************************************)
(* Properties of the redaction engine                                      *)
(***************************************************************************)
\* the input of the i-th call of a function whose results are in results
InputOf(first, results, i) == IF i = 1 THEN first ELSE results[i - 1]

HeaderInput(i) == IF i = 1 THEN headers ELSE redactedHeaders[i - 1].hdr

\* the configured keys, lower-cased
LowerKeys(keys) == {ToLower(keys[i]) : i \in DOMAIN keys}

\* the one list, lower-cased and sorted, that every key list equal to keys
\* once lower-cased is compared with
CanonicalKeys(keys) == SortStrings(LowerKeys(keys))

IsSecretName(name, keys) == ToLower(name) \in LowerKeys(keys)

Placeholder == Str(redactionPlaceholder)

IsJSON(b) == ParseDocument(b).ok

IsJSONObject(b) == ParseDocument(b).ok /\ ParseDocument(b).val.t = "obj"

\* C1: redaction is idempotent: applying redact, or redactJSONBody, to its
\* own result with the same keys returns that result again.
C1_Idempotent ==
    /\ \A i \in 2..Len(redactedData) : redactedData[i] = redactedData[1]
    /\ \A i \in 2..Len(redactedBody) : redactedBody[i] = redactedBody[1]

\* a body holding an array was redacted, changed by it, and redacted again
C1_Witness ==
    /\ Len(redactedBody) = 2
    /\ redactedBody[1] # body
    /\ IsJSONObject(body)
    /\ \E n \in FieldNames :
          /\ n \in DOMAIN ParseDocument(body).val.v
          /\ ParseDocument(body).val.v[n].t = "arr"
          /\ Len(ParseDocument(body).val.v[n].v) > 0
    /\ \E n \in DOMAIN ParseDocument(redactedBody[1]).val.v :
          ParseDocument(redactedBody[1]).val.v[n] = Placeholder

RECURSIVE NoSecretIn(_, _)
\* no object anywhere in d has a field with a secret name and a value other
\* than the placeholder
NoSecretIn(d, keys) ==
    IF d.t = "obj"
    THEN \A n \in DOMAIN d.v :
            /\ IsSecretName(n, keys) => d.v[n] = Placeholder
            /\ NoSecretIn(d.v[n], keys)
    ELSE IF d.t = "arr" THEN \A i \in 1..Len(d.v) : NoSecretIn(d.v[i], keys)
    ELSE TRUE

\* C2: for a body that is a JSON object and a non-empty key list, the output
\* of redactJSONBody holds no field, at any depth and through any mix of
\* objects and arrays, with a secret name and a value other than the
\* placeholder.
C2_NoSecretAnywhere ==
    \A i \in 1..Len(redactedBody) :
        (Len(keysToRedact) > 0 /\ IsJSONObject(InputOf(body, redactedBody, i)))
            => NoSecretIn(ParseDocument(redactedBody[i]).val, keysToRedact)

C4_EmptyKeysIdentity ==
    Len(keysToRedact) = 0 =>
        /\ \A i \in 1..Len(redactedBody) : redactedBody[i] = body
        /\ \A i \in 1..Len(redactedHeaders) : redactedHeaders[i] = HeaderResult(headers, TRUE)

\* a body that Marshal would write differently came back unchanged
C4_Witness ==
    /\ Len(keysToRedact) = 0
    /\ Len(redactedBody) >= 1
    /\ IsJSONObject(body)
    /\ Marshal(ParseDocument(body).val) # body

\* C5: a body that is empty or is not valid JSON comes back byte for byte,
\* whatever the keys.
C5_InvalidPassThrough ==
    \A i \in 1..Len(redactedBody) :
        LET in == InputOf(body, redactedBody, i)
        IN  (Len(in) = 0 \/ ~IsJSON(in)) => redactedBody[i] = in

\* a non-empty body that is not JSON was redacted under a non-empty key list
C5_Witness ==
    /\ Len(keysToRedact) > 0
    /\ Len(redactedBody) >= 1
    /\ Len(body) > 0
    /\ ~IsJSON(body)

\* C6: a body that is valid JSON but not an object (an array, a string, a
\* number, a boolean, null) comes back byte for byte under a non-empty key
\* list.
C6_NonObjectPassThrough ==
    \A i \in 1..Len(redactedBody) :
        LET in == InputOf(body, redactedBody, i)
        IN  (Len(keysToRedact) > 0 /\ IsJSON(in) /\ ~IsJSONObject(in)) => redactedBody[i] = in

\* C7: under a non-empty key list redactHeaders returns a map with the keys
\* of the input, spelled as in the input; a key with a secret name maps to
\* the one-element sequence holding the placeholder and every other key to
\* its input value sequence.
C7_HeaderRedaction ==
    \A i \in 1..Len(redactedHeaders) :
        Len(keysToRedact) > 0 =>
            LET in  == HeaderInput(i)
                out == redactedHeaders[i].hdr
            IN  /\ DOMAIN out = DOMAIN in
                /\ \A n \in DOMAIN in :
                      out[n] = IF IsSecretName(n, keysToRedact)
                               THEN <<redactionPlaceholder>> ELSE in[n]

\* a header with two values was redacted next to one that was kept
C7_Witness ==
    /\ Len(redactedHeaders) >= 1
    /\ \E n, m \in DOMAIN headers :
          /\ Len(headers[n]) = 2
          /\ redactedHeaders[1].hdr[n] = <<redactionPlaceholder>>
          /\ redactedHeaders[1].hdr[m] = headers[m]
          /\ Len(headers[m]) = 2

RECURSIVE MatchingReplaced(_, _, _)
\* in every object redact goes through, from the map in down through the
\* fields that do not match and the objects that are elements of their
\* arrays, a field with a secret name is the placeholder string in out
MatchingReplaced(in, out, keys) ==
    /\ out.t = "obj"
    /\ \A n \in MapKeys(in) :
          /\ n \in DOMAIN out.v
          /\ IF IsSecretName(n, keys) THEN out.v[n] = Placeholder
             ELSE IF in.v[n].t = "obj" THEN MatchingReplaced(in.v[n], out.v[n], keys)
             ELSE IF in.v[n].t = "arr"
             THEN \A i \in 1..Len(in.v[n].v) :
                     in.v[n].v[i].t = "obj" =>
                        /\ out.v[n].t = "arr"
                        /\ i <= Len(out.v[n].v)
                        /\ MatchingReplaced(in.v[n].v[i], out.v[n].v[i], keys)
             ELSE TRUE

\* C24: in redact a field whose lower-cased name is in the key set is
\* replaced by the placeholder string whatever the type of its value, and
\* nothing of that value is in the output.
C24_PlaceholderAnyType ==
    \A i \in 1..Len(redactedData) :
        MatchingReplaced(InputOf(data, redactedData, i), redactedData[i], keysToRedact)

\* a matching field that held an object with a field of its own
C24_Witness ==
    /\ Len(redactedData) = 1
    /\ \E n \in MapKeys(data) :
          /\ IsSecretName(n, keysToRedact)
          /\ data.v[n].t = "obj"
          /\ data.v[n].v # EmptyFields
          /\ redactedData[1].v[n] = Placeholder

RECURSIVE Preserved(_, _, _)
\* out has the keys of in, and under every key that does not match the
\* same scalar, the object preserved in the same way, or an array of the
\* same length whose object elements are preserved in the same way and
\* whose other elements are those of in
Preserved(in, out, keys) ==
    /\ out.t = "obj"
    /\ DOMAIN out.v = MapKeys(in)
    /\ \A n \in MapKeys(in) :
          IsSecretName(n, keys)
          \/ IF in.v[n].t = "obj" THEN Preserved(in.v[n], out.v[n], keys)
             ELSE IF in.v[n].t = "arr"
             THEN /\ out.v[n].t = "arr"
                  /\ Len(out.v[n].v) = Len(in.v[n].v)
                  /\ \A i \in 1..Len(in.v[n].v) :
                        IF in.v[n].v[i].t = "obj"
                        THEN Preserved(in.v[n].v[i], out.v[n].v[i], keys)
                        ELSE out.v[n].v[i] = in.v[n].v[i]
             ELSE out.v[n] = in.v[n]

\* C25: redact preserves everything that does not match: the key set of
\* every object, every scalar, and every array with its length (0
\* included) and the order of its elements, of which the objects are
\* redacted and the others are the same.
C25_Preserves ==
    \A i \in 1..Len(redactedData) :
        Preserved(InputOf(data, redactedData, i), redactedData[i], keysToRedact)

(***************************************************************************)
(* Properties of the result logger                                         *)
(***************************************************************************)
ResultMsg == "GORM Query Result"

\* the callback has run on a result that json.Marshal encodes
ResultLogged == queries > 0 /\ registered /\ ~MarshalFails(dest)

\* the canonical serialization of the query result
Canonical == Marshal(dest)

\* the budget is positive and the canonical serialization exceeds it
TruncationTriggered ==
    cfg.LogResultMaxBytes > 0 /\ Len(Canonical) > cfg.LogResultMaxBytes

\* the fields of the query result, by name
DestObject ==
    IF dest.t = "struct" THEN [n \in {dest.v[i].name : i \in DOMAIN dest.v} |->
                                  (CHOOSE f \in Range(dest.v) : f.name = n).val]
    ELSE IF dest.t = "obj" THEN dest.v
    ELSE EmptyFields

ObjectShaped == dest.t \in {"struct", "obj"}

\* the fields of the object the canonical serialization decodes to
DecodedObject == ParseDocument(Canonical).val.v

\* pat occurs in b
Contains(b, pat) ==
    \E i \in 1..(Len(b) - Len(pat) + 1) : SubSeq(b, i, i + Len(pat) - 1) = pat

\* b has a member name:val
HasMember(b, name, val) ==
    \/ Contains(b, Quote(name) \o <<":">> \o Marshal(val) \o <<",">>)
    \/ Contains(b, Quote(name) \o <<":">> \o Marshal(val) \o <<"}">>)

\* C8: when LogResultMaxBytes <= 0, or the canonical serialization is no
\* longer than LogResultMaxBytes, every query logs exactly the canonical
\* serialization.
C8_NoTruncation ==
    (ResultLogged /\ ~TruncationTriggered) =>
        /\ Len(logs) = queries
        /\ \A i \in 1..Len(logs) :
              logs[i] = LogRecord(ZapLogger(logs[i].logger), "debug", ResultMsg, Canonical)

\* a struct of three fields whose serialization fills the budget exactly
C8_Witness ==
    /\ ResultLogged
    /\ dest.t = "struct" /\ Len(dest.v) = 3
    /\ Len(Canonical) = cfg.LogResultMaxBytes
    /\ Len(logs) >= 1
    /\ logs[1].result = Canonical

\* C9: when the result is an object with a field named exactly "ID" and
\* truncation is triggered, the logged output holds "ID" with its original
\* value, for every positive budget.
C9_IDPresent ==
    (ResultLogged /\ TruncationTriggered /\ ObjectShaped /\ IDField \in DOMAIN DestObject) =>
        /\ Len(logs) = queries
        /\ \A i \in 1..Len(logs) :
              /\ logs[i].msg = ResultMsg
              /\ HasMember(logs[i].result, IDField, DestObject[IDField])

\* the object that holds only the ID field of the decoded result, empty
\* when it has none
IDOnly ==
    IF IDField \in DOMAIN DecodedObject
    THEN Obj(IDField :> DecodedObject[IDField]) ELSE EmptyObj

C11_IDFirst ==
    (ResultLogged /\ TruncationTriggered /\ ObjectShaped) =>
        \A i \in 1..Len(logs) :
            /\ logs[i].msg = ResultMsg
            /\ IsJSONObject(logs[i].result)
            /\ logs[i].result = IDFirstBytes(ParseDocument(logs[i].result).val.v)

\* C11 as the code has it: the truncated output of an object-shaped result
\* lists the included fields in ascending order of their names, "ID" at its
\* place among them; "ID" is included whenever the decoded result has it.
C11_Ascending ==
    (ResultLogged /\ TruncationTriggered /\ ObjectShaped) =>
        \A i \in 1..Len(logs) :
            /\ logs[i].msg = ResultMsg
            /\ IsJSONObject(logs[i].result)
            /\ logs[i].result = Marshal(Obj(ParseDocument(logs[i].result).val.v))
            /\ IDField \in DOMAIN DecodedObject
                  => IDField \in DOMAIN ParseDocument(logs[i].result).val.v

\* a truncated output that holds "ID" after a field whose name sorts before
\* it, a third field having been dropped
C11_Witness ==
    /\ ResultLogged /\ TruncationTriggered
    /\ dest.t = "struct" /\ Len(dest.v) = 3
    /\ Len(logs) >= 1
    /\ DOMAIN ParseDocument(logs[1].result).val.v = {IDField, <<"A","t">>}
    /\ SubSeq(logs[1].result, 1, 6) = <<"{">> \o Quote(<<"A","t">>) \o <<":">>

\* C12: truncation is deterministic: queries with the same result and the
\* same budget log the same bytes, and so the same fields, in whatever order
\* the range statement enumerates the keys of the decoded map.
C12_Deterministic ==
    (ResultLogged /\ TruncationTriggered /\ ObjectShaped) =>
        /\ Len(logs) = queries
        /\ \A i, j \in 1..Len(logs) : logs[i] = logs[j]

\* two queries on a result of three fields, whose keys the range statement
\* may enumerate in six orders, logged the same two fields
C12_Witness ==
    /\ ResultLogged /\ TruncationTriggered
    /\ dest.t = "struct" /\ Len(dest.v) = 3
    /\ Len(logs) = 2
    /\ logs[1] = logs[2]
    /\ Cardinality(DOMAIN ParseDocument(logs[2].result).val.v) = 2
    /\ Cardinality(rangeOrders(dest, cfg.LogResultMaxBytes)) = 6

\* C13: when the canonical serialization exceeds a positive budget and
\* decodes to something that is not an object, every query completes and
\* logs the first LogResultMaxBytes bytes of the canonical serialization.
C13_NonObjectFallback ==
    (ResultLogged /\ TruncationTriggered /\ ~ObjectShaped) =>
        /\ ~panicked
        /\ Len(logs) = queries
        /\ \A i \in 1..Len(logs) :
              logs[i] = LogRecord(ZapLogger(logs[i].logger), "debug", ResultMsg,
                                  SubSeq(Canonical, 1, cfg.LogResultMaxBytes))

\* the number of "GORM Query Result" records among the first i of l
RECURSIVE ResultRecords(_, _)
ResultRecords(l, i) ==
    IF i = 0 THEN 0
    ELSE ResultRecords(l, i - 1) + (IF l[i].msg = ResultMsg THEN 1 ELSE 0)

\* C19: with LogQueryResult off no callback is registered and no "GORM
\* Query Result" record is ever emitted; with it on, no more such records
\* are emitted than queries have completed.
C19_OptIn ==
    /\ ~cfg.LogQueryResult =>
          /\ ~registered
          /\ ResultRecords(logs, Len(logs)) = 0
    /\ cfg.LogQueryResult =>
          ResultRecords(logs, Len(logs)) <= queries

\* with LogQueryResult off, queries have run on an initialized connection
\* and left no record
C19_Witness ==
    /\ initialized
    /\ ~cfg.LogQueryResult
    /\ queries = MaxQueries
    /\ dest.t = "struct"
    /\ logs = <<>>

\* the names of the decoded result other than "ID", in ascending order
OtherNames == SortStrings(DOMAIN DecodedObject \ {IDField})

\* the length of the serialization of the object with the one field name
SingletonLen(name) == Len(Marshal(Obj(name :> DecodedObject[name])))

RECURSIVE Accumulated(_)
\* the accumulator once "ID", if there is one, and the first j of the
\* other names are included: 2, and the singleton length less 1 for each
Accumulated(j) ==
    IF j = 0 THEN 2 + (IF IDField \in DOMAIN DecodedObject THEN SingletonLen(IDField) - 1 ELSE 0)
    ELSE Accumulated(j - 1) + SingletonLen(OtherNames[j]) - 1

\* C26: in the truncation path the included fields other than "ID" are a
\* prefix of the ascending list of their names: a field is included iff
\* every field before it is included and the accumulator plus its singleton
\* length less 1 is within the budget; after a field that does not fit no
\* field is included, even one that would fit.
C26_GreedyCutoff ==
    (ResultLogged /\ TruncationTriggered /\ ObjectShaped) =>
        /\ Len(logs) = queries
        /\ \A i \in 1..Len(logs) :
              /\ logs[i].msg = ResultMsg
              /\ IsJSONObject(logs[i].result)
              /\ LET out == DOMAIN ParseDocument(logs[i].result).val.v
                 IN  /\ out \subseteq DOMAIN DecodedObject
                     /\ \A j \in 1..Len(OtherNames) :
                           OtherNames[j] \in out <=>
                              /\ \A l \in 1..(j - 1) : OtherNames[l] \in out
                              /\ Accumulated(j - 1) + SingletonLen(OtherNames[j]) - 1
                                    <= cfg.LogResultMaxBytes

\* "At" did not fit and "N", which would have fit in its place, was left
\* out after it
C26_Witness ==
    /\ ResultLogged /\ TruncationTriggered
    /\ dest.t = "struct" /\ Len(dest.v) = 3
    /\ Len(logs) >= 1
    /\ DOMAIN ParseDocument(logs[1].result).val.v = {IDField}
    /\ Accumulated(0) + SingletonLen(<<"A","t">>) - 1 > cfg.LogResultMaxBytes
    /\ Accumulated(0) + SingletonLen(<<"N">>) - 1 <= cfg.LogResultMaxBytes

\* the accounting of the truncation of the decoded result
Steps == accounting(DecodedObject, OtherNames, cfg.LogResultMaxBytes)

\* the length of the serialization of the object with the given fields
ActualLen(fields) == Len(Marshal(Obj(fields)))

\* C29: at every step of the truncation the accumulator is no smaller than
\* the length of the serialization of the object accumulated so far: equal
\* to it for the empty object and 1 more once a field is included; so an
\* output with a field other than "ID" is strictly shorter than the budget.
C29_SizeAccounting ==
    (ResultLogged /\ TruncationTriggered /\ ObjectShaped) =>
        LET steps == Steps
            final == steps[Len(steps)].truncatedMap
            output == Marshal(Obj(final))
        IN  /\ \A k \in 1..Len(steps) :
                  LET actual == ActualLen(steps[k].truncatedMap)
                  IN  /\ steps[k].currentSize >= actual
                      /\ steps[k].currentSize =
                            actual + (IF steps[k].truncatedMap = EmptyFields THEN 0 ELSE 1)
            /\ Len(logs) = queries
            /\ \A i \in 1..Len(logs) : logs[i].result = output
            /\ (DOMAIN final \ {IDField} # {}) => Len(output) < cfg.LogResultMaxBytes

\* "ID" and one more field were included with the accumulator at the
\* budget: the output is one byte shorter than the budget
C29_Witness ==
    /\ ResultLogged /\ TruncationTriggered /\ ObjectShaped
    /\ Len(logs) >= 1
    /\ DOMAIN Last(Steps).truncatedMap = {IDField, <<"A","t">>}
    /\ Last(Steps).currentSize = cfg.LogResultMaxBytes
    /\ Len(logs[1].result) = cfg.LogResultMaxBytes - 1

(***************************************************************************)
(* Properties of the HTTP middleware                                       *)
(***************************************************************************)
\* the middleware has been called with a request
Arrived == pc # "idle"

\* the path of the request is one of the configured SkipPaths
Skipped == \E i \in DOMAIN httpCfg.SkipPaths : httpCfg.SkipPaths[i] = req.path

\* the places in events where something of the given kind happened
Indices(kind) == {i \in 1..Len(events) : events[i].ev = kind}

\* the codes the handler has passed to WriteHeader
CodesSet == {events[i].code : i \in Indices("WriteHeader")}

\* the calls of RoundTrip the handler has made
RoundTrips == {events[i] : i \in Indices("RoundTrip")}

\* C14: for a request whose path is not in SkipPaths the middleware emits
\* "Request received" before it invokes the handler, invokes the handler
\* once, and emits "Response sent" after the handler has returned, and no
\* other record; "Response sent" carries the status code the handler set.
C14_TwoRecords ==
    (Arrived /\ ~Skipped) =>
        /\ Len(events) >= 2
        /\ events[1].ev = "log" /\ events[1].msg = "Request received"
        /\ Indices("invoke") = {2}
        /\ pc = "handler" => (Indices("log") = {1} /\ Indices("return") = {})
        /\ pc = "done" =>
              /\ Indices("log") = {1, Len(events)}
              /\ Indices("return") = {Len(events) - 1}
              /\ Last(events).msg = "Response sent"
              /\ Cardinality(CodesSet) = 1 => Last(events).fields.status \in CodesSet

\* a request for a path that a skipped path is a prefix of was served; its
\* handler set 201 and sent a request of its own
C14_Witness ==
    /\ pc = "done"
    /\ ~Skipped
    /\ httpCfg.SkipPaths = <<<<"/","h">>>>
    /\ req.path = <<"/","h","/">>
    /\ CodesSet = {201}
    /\ RoundTrips # {}
    /\ Last(events).fields.status = 201

\* the first value of the X-Request-ID header of the request, "" if none
GivenLogID ==
    IF XRequestId \in DOMAIN req.header /\ Len(req.header[XRequestId]) > 0
    THEN req.header[XRequestId][1] ELSE <<>>

\* C15: the log id of a request that is not skipped is the value of its
\* X-Request-ID header when that is not empty and a generated id otherwise;
\* both records carry it, and the context the handler sees holds it under
\* LogIDKey and the logger that carries it under LoggerKey.
C15_LogID ==
    (Arrived /\ ~Skipped) =>
        /\ Len(events[1].logger) = 1
        /\ IF GivenLogID # <<>> THEN events[1].logger[1] = GivenLogID
           ELSE events[1].logger[1] \in UUIDs
        /\ events[2].r = handed.r
        /\ LogIDKey \in DOMAIN handed.r.ctx
        /\ handed.r.ctx[LogIDKey] = Str(events[1].logger[1])
        /\ LoggerKey \in DOMAIN handed.r.ctx
        /\ handed.r.ctx[LoggerKey] = ZapLogger(events[1].logger)
        /\ pc = "done" => Last(events).logger = events[1].logger

\* a request with X-Request-ID "a" was served under a key list that redacts
\* that header: the logged header is the placeholder, the log id is "a"
C15_Witness ==
    /\ pc = "done"
    /\ ~Skipped
    /\ GivenLogID = <<"a">>
    /\ events[1].fields.headers[XRequestId] = <<redactionPlaceholder>>
    /\ events[1].logger = <<<<"a">>>>
    /\ Last(events).logger = <<<<"a">>>>

\* C16: for a request whose path is in SkipPaths the handler is invoked
\* once, with the caller's writer and request; the middleware emits no
\* record and adds neither a logger nor a log id to the context.
C16_Skipped ==
    (Arrived /\ Skipped) =>
        /\ Indices("invoke") = {1}
        /\ events[1].w = "w"
        /\ events[1].r = req
        /\ handed = [w |-> "w", r |-> req]
        /\ Indices("log") = {}
        /\ LoggerKey \notin DOMAIN handed.r.ctx
        /\ LogIDKey \notin DOMAIN handed.r.ctx

\* a skipped request that carried X-Request-ID "a" was served, and the
\* request its handler sent with its context was logged without a log id
C16_Witness ==
    /\ pc = "done"
    /\ Skipped
    /\ GivenLogID = <<"a">>
    /\ \E e \in RoundTrips : e.r.ctx = handed.r.ctx /\ e.trace[1].logger = <<>>

\* the log id RoundTrip finds in the context of the request of call e
ContextLogID(e) ==
    IF LogIDKey \in DOMAIN e.r.ctx /\ e.r.ctx[LogIDKey].t = "str"
    THEN e.r.ctx[LogIDKey].v ELSE <<>>

\* the header of the request of call e with the log id of its context, if
\* it has one, as its X-Request-ID
Carried(e) ==
    IF ContextLogID(e) # <<>> THEN (XRequestId :> <<ContextLogID(e)>>) @@ e.r.header
    ELSE e.r.header

\* C17: the request handed to the next transport carries every header in
\* the key set with the value the caller gave it, and the "Client request
\* sent" record carries the placeholder for those headers and the value the
\* caller gave for all others.
C17_CallerValues ==
    \A e \in RoundTrips :
        \A h \in DOMAIN e.r.header :
            IF IsSecretName(h, httpCfg.RedactKeys)
            THEN /\ e.trace[2].r.header[h] = e.r.header[h]
                 /\ e.trace[1].fields.headers[h] = <<redactionPlaceholder>>
            ELSE e.trace[1].fields.headers[h] = e.r.header[h]

\* C17 as the code has it: the request handed to the next transport carries
\* the headers the caller gave, unredacted, but for X-Request-ID, which is
\* the log id of the context when there is one; the "Client request sent"
\* record carries the placeholder for the headers in the key set and, for
\* all others, the values handed to the next transport.
C17_OnlyTheCopy ==
    \A e \in RoundTrips :
        /\ e.trace[1].msg = "Client request sent"
        /\ e.trace[2].ev = "next"
        /\ e.trace[2].r.header = Carried(e)
        /\ \A h \in DOMAIN e.r.header \ {XRequestId} :
              e.trace[2].r.header[h] = e.r.header[h]
        /\ DOMAIN e.trace[1].fields.headers = DOMAIN Carried(e)
        /\ \A h \in DOMAIN Carried(e) :
              e.trace[1].fields.headers[h] =
                  IF IsSecretName(h, httpCfg.RedactKeys) THEN <<redactionPlaceholder>>
                  ELSE Carried(e)[h]

\* a request with a secret header and an X-Request-ID "b" of the caller's
\* was sent with the context of a request logged as "a": the secret went
\* out as it was and was logged as the placeholder, X-Request-ID went out
\* and was logged as "a"
C17_Witness ==
    \E e \in RoundTrips :
        /\ e.r.header[SecretHeader] = <<<<"s">>>>
        /\ IsSecretName(SecretHeader, httpCfg.RedactKeys)
        /\ XRequestId \in DOMAIN e.r.header
        /\ e.r.header[XRequestId] = <<<<"b">>>>
        /\ e.trace[2].r.header[SecretHeader] = <<<<"s">>>>
        /\ e.trace[1].fields.headers[SecretHeader] = <<redactionPlaceholder>>
        /\ e.trace[2].r.header[XRequestId] = <<<<"a">>>>
        /\ e.trace[1].fields.headers[XRequestId] = <<<<"a">>>>

\* C18: when a request is logged with log id x, every request its handler
\* sends through the logging RoundTripper with the context of its own
\* request reaches the next transport with X-Request-ID x, and every record
\* of that call ("Client request sent", "Client response received",
\* "Client request failed") carries log id x.
C18_Traceability ==
    (Arrived /\ ~Skipped) =>
        \A e \in RoundTrips :
            e.r.ctx = handed.r.ctx =>
                /\ XRequestId \in DOMAIN e.trace[2].r.header
                /\ e.trace[2].r.header[XRequestId] = <<events[1].logger[1]>>
                /\ \A j \in {1, 3} :
                      /\ e.trace[j].ev = "log"
                      /\ e.trace[j].logger = events[1].logger
                /\ e.trace[3].msg = IF e.err # <<>> THEN "Client request failed"
                                    ELSE "Client response received"

\* a request logged under a generated id was served; its handler sent, with
\* its context, a request that failed and one that was answered, both with
\* an X-Request-ID "b" of their own
C18_Witness ==
    /\ pc = "done"
    /\ ~Skipped
    /\ GivenLogID = <<>>
    /\ events[1].logger[1] \in UUIDs
    /\ \E e, f \in RoundTrips :
          /\ e.r.ctx = handed.r.ctx /\ f.r.ctx = handed.r.ctx
          /\ e.err # <<>> /\ f.err = <<>>
          /\ XRequestId \in DOMAIN e.r.header
          /\ XRequestId \in DOMAIN f.r.header
          /\ e.trace[2].r.header[XRequestId] = <<events[1].logger[1]>>
          /\ f.trace[3].logger = events[1].logger

\* the positions in the trace of a RoundTrip of the entries of one kind
At(e, kind) == {i \in 1..Len(e.trace) : e.trace[i].ev = kind}

\* the positions of its records with one of the given messages
Records(e, msgs) == {i \in At(e, "log") : e.trace[i].msg \in msgs}

\* C28: every RoundTrip emits "Client request sent" first, then calls the
\* next transport exactly once, then emits exactly one record: "Client
\* request failed" when the next transport returned an error, and RoundTrip
\* returns a nil response and that error; "Client response received" when
\* it did not, and RoundTrip returns the response.
C28_RecordSequence ==
    \A e \in RoundTrips :
        /\ Len(e.trace) = 3
        /\ Records(e, {"Client request sent"}) = {1}
        /\ At(e, "next") = {2}
        /\ At(e, "log") = {1, 3}
        /\ IF e.trace[2].out.err # <<>>
           THEN /\ e.trace[3].msg = "Client request failed"
                /\ e.trace[3].fields.error = e.trace[2].out.err
                /\ e.resp = Null
                /\ e.err = e.trace[2].out.err
           ELSE /\ e.trace[3].msg = "Client response received"
                /\ e.resp = e.trace[2].out.resp
                /\ e.err = <<>>

\* a handler whose first request failed, the transport having returned a
\* response with the error, and whose second request was answered
C28_Witness ==
    /\ pc = "done"
    /\ \E i, j \in Indices("RoundTrip") :
          /\ i < j
          /\ events[i].trace[2].out.err # <<>>
          /\ events[i].trace[2].out.resp # Null
          /\ events[i].resp = Null
          /\ events[i].trace[3].msg = "Client request failed"
          /\ events[j].err = <<>>
          /\ events[j].trace[3].msg = "Client response received"

RECURSIVE Written(_)
\* the bytes of the Write calls among the first i events, in order
Written(i) ==
    IF i = 0 THEN <<>>
    ELSE Written(i - 1) \o (IF events[i].ev = "Write" THEN events[i].b ELSE <<>>)

\* the status the client receives: that of the underlying writer, which is
\* StatusOK when the handler returns without a status or a body
Received == IF w.wroteHeader THEN w.status ELSE StatusOK

\* C30: the status of the "Response sent" record is the status the client
\* receives from the underlying writer, for every sequence of WriteHeader
\* and Write calls of the handler, and the body bytes reach the underlying
\* writer unchanged and in order.
C30_StatusAsReceived ==
    (pc = "done" /\ ~Skipped) =>
        /\ Last(events).msg = "Response sent"
        /\ Last(events).fields.status = Received
        /\ w.body = Written(Len(events))

(***************************************************************************)
(* Properties of the GORM logger                                           *)
(***************************************************************************)
\* the configured slow query threshold in nanoseconds: 200 ms when the
\* configuration sets none
ConfiguredThreshold ==
    IF gormCfg.SlowQueryThresholdMs > 0 THEN gormCfg.SlowQueryThresholdMs * 1000000
    ELSE 200 * 1000000

\* the records the latest call emitted
Emitted == SubSeq(gormLogs, call.before + 1, Len(gormLogs))

\* the latest call reported an error other than record-not-found
Failing == call.err # <<>> /\ "record not found" \notin Range(call.err)

\* C20: with a log level above Silent a call of Trace emits exactly one
\* record: Error "GORM Trace" for an error other than record-not-found;
\* otherwise Warn "GORM Trace (Slow Query)" when the statement took strictly
\* longer than the slow threshold; otherwise Info "GORM Trace".
C20_TraceClassification ==
    (call.op = "Trace" /\ call.l.LogLevel > 1) =>
        /\ Len(Emitted) = 1
        /\ Emitted[1].fields.latency = call.elapsed
        /\ IF Failing
           THEN Emitted[1].level = "error" /\ Emitted[1].msg = "GORM Trace"
           ELSE IF call.elapsed > ConfiguredThreshold
           THEN Emitted[1].level = "warn" /\ Emitted[1].msg = "GORM Trace (Slow Query)"
           ELSE Emitted[1].level = "info" /\ Emitted[1].msg = "GORM Trace"

\* at level "error" a statement that took exactly the threshold was logged
\* as Info, and then a failing statement that took longer as Error
C20_Witness ==
    /\ traces = 2
    /\ call.op = "Trace"
    /\ gormCfg.Level = "error"
    /\ call.l.LogLevel = 2
    /\ Len(gormLogs) = 2
    /\ gormLogs[1].level = "info"
    /\ gormLogs[1].msg = "GORM Trace"
    /\ gormLogs[1].fields.latency = ConfiguredThreshold
    /\ Failing
    /\ call.elapsed > ConfiguredThreshold
    /\ gormLogs[2].level = "error"

\* the level a record of the given severity needs
LevelFor(severity) ==
    CASE severity = "error" -> 2
      [] severity = "warn" -> 3
      [] severity = "info" -> 4

\* the severity of the record the latest call is about
SeverityOf(c) ==
    CASE c.op = "Info" -> "info"
      [] c.op = "Warn" -> "warn"
      [] c.op = "Error" -> "error"
      [] c.op = "Trace" ->
            IF Failing THEN "error"
            ELSE IF c.elapsed > c.l.SlowQueryThresholdMs THEN "warn"
            ELSE "info"

\* C21: the log level filters every record of Info, Warn, Error and Trace:
\* none at Silent, only Error records at Error, only Warn and Error records
\* at Warn, all at Info.
C21_LevelFilters ==
    call.op # "" =>
        IF call.l.LogLevel >= LevelFor(SeverityOf(call))
        THEN Len(Emitted) = 1 /\ Emitted[1].level = SeverityOf(call)
        ELSE Emitted = <<>>

\* the logger a call with context ctx is to write through, base being the
\* logger given at construction
Selected(ctx, base) ==
    IF ctx = NilContext THEN base
    ELSE IF LoggerKey \in DOMAIN ctx /\ ctx[LoggerKey].t = "logger" THEN ctx[LoggerKey]
    ELSE base

\* C22: every record of logResult and of the GormLogger is written through
\* the logger the call's context holds under LoggerKey, and through the
\* logger given at construction when the context is nil or holds none; no
\* call changes the logger given at construction.
C22_ContextLogger ==
    [][/\ \A i \in (Len(logs) + 1)..Len(logs') :
             logs'[i].logger = Selected(stmtCtx, baseLogger).v
       /\ \A i \in (Len(gormLogs) + 1)..Len(gormLogs') :
             gormLogs'[i].logger = Selected(call'.ctx, gormLogger.ZapLogger).v
       /\ gormLogger'.ZapLogger = gormLogger.ZapLogger]_vars

\* a result written with a request's log_id, for a statement whose context
\* holds the request's logger, and a GormLogger record written through the
\* base logger, for a call with the nil context
C22_Witness ==
    /\ Len(logs) = 1
    /\ logs[1].logger = <<<<"a">>>>
    /\ LoggerKey \in DOMAIN stmtCtx
    /\ Len(gormLogs) = 1
    /\ gormLogs[1].logger = <<>>
    /\ call.ctx = NilContext
    /\ call.before = 0

(***************************************************************************)
(* Properties of the concurrent invocations                                *)
(***************************************************************************)
\* goroutine g has returned from the function it was started with
Returned(g) == g \in DOMAIN procs /\ procs[g].stack = <<>>

\* the objects of the caller's arguments as the caller made them
Arguments ==
    (headersAddr :> MapObject(headers)) @@ (keysAddr :> SliceObject(keysToRedact))
    @@ (bodyAddr :> SliceObject(body)) @@ StoreValue(data, 0, dataAddr[2]).objs

\* the addresses whose object the step allocates or writes
WrittenObjects == {a \in DOMAIN heap' : a \notin DOMAIN heap \/ heap'[a] # heap[a]}

\* every object the step allocates or writes belongs to the goroutine
\* that takes the step
NoForeignWrite ==
    \A a \in WrittenObjects : \E g \in DOMAIN procs : procs'[g] # procs[g] /\ a[1] = g

\* what goroutine g returned is what its function returns for the
\* caller's arguments when nothing else runs
SoloResult(g) ==
    LET ret == procs[g].ret
    IN  CASE procs[g].fn = "redactHeaders" ->
               LET r == redactHeaders(headers, keysToRedact)
               IN  /\ ret.t = "ref"
                   /\ (ret.v = headersAddr) <=> r.same
                   /\ heap[ret.v].v = r.hdr
          [] procs[g].fn = "redact" -> Deref(heap, ret) = redact(data, keysToRedact)
          [] procs[g].fn = "redactJSONBody" ->
               /\ ret.t = "ref"
               /\ heap[ret.v].v = redactJSONBody(body, keysToRedact)

AllSolo == \A g \in DOMAIN procs : Returned(g) => SoloResult(g)

\* C23: in every interleaving of the steps of concurrent invocations of
\* redactHeaders, redact and redactJSONBody on the same header map,
\* document, body and key list, a step writes only objects of the goroutine
\* that takes it, and every invocation that has returned has returned what
\* it returns when it runs alone.
C23_ConcurrentUse == [][NoForeignWrite]_vars /\ []AllSolo

\* goroutine 2 has returned redacted headers while goroutine 1, started
\* before it on the same header map and key list, is in the middle of its
\* range over the headers
C23_Witness ==
    /\ Returned(2)
    /\ procs[2].fn = "redactHeaders"
    /\ procs[2].ret.v # headersAddr
    /\ heap[procs[2].ret.v].v[<<"P","w">>] = <<redactionPlaceholder>>
    /\ Running(1, "redactHeaders")
    /\ Top(procs[1]).pc = "range"
    /\ Cardinality(Top(procs[1]).todo) = 1

\* C27: once an invocation of redact, redactJSONBody or redactHeaders has
\* returned, the document, the byte slice, the header map and the key list
\* it was given are the objects the caller made, with nothing in them
\* changed.
C27_InputsIntact ==
    (\E g \in DOMAIN procs : Returned(g)) =>
        \A a \in DOMAIN Arguments : heap[a] = Arguments[a]

\* redact has returned a document in which the secret is replaced, and
\* redactJSONBody a body that is not the one it was given
C27_Witness ==
    /\ Returned(1) /\ Returned(2)
    /\ procs[1].fn = "redact"
    /\ procs[2].fn = "redactJSONBody"
    /\ <<"p","w">> \in DOMAIN data.v
    /\ Deref(heap, procs[1].ret).v[<<"p","w">>] = Str(redactionPlaceholder)
    /\ heap[procs[2].ret.v].v # body
    /\ Deref(heap, Ref(dataAddr)) = data
    /\ heap[bodyAddr].v = body

====
